---- MODULE Spec2Model ----
(***************************************************************************)
(* Model of the operational risk scoring engine (src/src/risk_engine.py)   *)
(* and its configuration (src/src/config.py).                              *)
(*                                                                         *)
(* Numbers.  The code computes with Python floats.  The model computes     *)
(* with exact fixed-point integers on grids where every division of the    *)
(* code is exact:                                                          *)
(*   congestion / demand signals   1.0     = SignalOne  units (0.001 each) *)
(*   rainfall                      1 mm    = MM         units (0.01 mm)    *)
(*   temperature                   1 deg C = DEG        units (0.1 deg)    *)
(*   component scores              1 point = ScoreUnit  units              *)
(*   combined risk score           1 point = CombinedUnit units            *)
(* The combined score carries the two extra decimal digits of the weights  *)
(* (0.40, 0.35, 0.25 are 40, 35, 25 hundredths).                           *)
(***************************************************************************)
EXTENDS Integers, Sequences, FiniteSets, TLC

VARIABLES
    fn,           \* the pure function last applied ("none" before any call)
    args,         \* its arguments
    result,       \* the value it returned
    columns,      \* the header of the feature file
    features_df,  \* the feature table read by run_risk_engine (the caller's frame)
    risk_df,      \* the risk table returned by compute_risk_scores
    alerts_df,    \* the alert table returned by generate_alerts
    alert_date,   \* the date argument generate_alerts was called with
    error,        \* the exception that ended the run ("" if none)
    files,        \* daily_city_risk.csv and alerts_today.csv in output_dir
    apply_empty_result,  \* how this pandas build applies a function to no rows
    runs,         \* invocations of run_risk_engine started so far
    alerts_before,  \* rows alerts_today.csv held when the last run started
    pc,           \* position of the engine run, or of the pipeline's main
    raw_files,    \* data/raw: weather_india.csv, traffic_india.csv, demand_india.csv
    steps,        \* what main of run_pipeline.py has executed so far, in order
    weather_df,   \* fetch_all_data's and main's weather table (where it is from)
    traffic_df,   \* their traffic table
    demand_df,    \* their demand table
    weather_data, \* the records a weather fetcher has collected so far
    selected_date,  \* the date chosen in the dashboard
    date_alerts   \* the alerts the dashboard shows for it

\* the variables of run_pipeline.py and data_fetcher.py
fetch_vars ==
    <<raw_files, steps, weather_df, traffic_df, demand_df, weather_data>>

\* the variables of dashboard.py
dashboard_vars == <<selected_date, date_alerts>>

vars ==
    <<fn, args, result, columns, features_df, risk_df, alerts_df, alert_date,
      error, files, apply_empty_result, runs, alerts_before, pc, fetch_vars,
      dashboard_vars>>

\* no table fetched or read yet
NoTable == <<>>

\* a file of data/raw that does not exist, and one that holds a table
AbsentFile == [present |-> FALSE, rows |-> <<>>]
csv_file(table) == [present |-> TRUE, rows |-> table]

NoRawFiles ==
    [weather |-> AbsentFile, traffic |-> AbsentFile, demand |-> AbsentFile]

FetchIdle ==
    /\ raw_files = NoRawFiles
    /\ steps = <<>>
    /\ weather_df = NoTable
    /\ traffic_df = NoTable
    /\ demand_df = NoTable
    /\ weather_data = <<>>

DashboardIdle ==
    /\ selected_date = 0
    /\ date_alerts = <<>>

(***************************************************************************)
(* Units                                                                   *)
(***************************************************************************)
SignalOne == 1000
MM == 100
DEG == 10
ScoreUnit == 3000
CombinedUnit == 100 * ScoreUnit

Max(a, b) == IF a >= b THEN a ELSE b
Min(a, b) == IF a <= b THEN a ELSE b

(***************************************************************************)
(* config.py                                                               *)
(***************************************************************************)
\* weights in hundredths: 0.40, 0.35, 0.25
RISK_WEIGHTS == [traffic |-> 40, weather |-> 35, demand |-> 25]

TRAFFIC_THRESHOLDS == [low |-> 300, medium |-> 600, high |-> 800]

WEATHER_THRESHOLDS == [low |-> 5 * MM, medium |-> 15 * MM, high |-> 30 * MM]

DEMAND_THRESHOLDS == [low |-> 500, medium |-> 700, high |-> 850]

TEMPERATURE_THRESHOLDS == [cold_risk |-> 10 * DEG, hot_risk |-> 40 * DEG]

RISK_SCORE_THRESHOLDS ==
    [low |-> 30 * CombinedUnit, medium |-> 60 * CombinedUnit,
     high |-> 100 * CombinedUnit]

(***************************************************************************)
(* compute_traffic_risk_score                                              *)
(***************************************************************************)
\* The four band formulas of the traffic scorer, lowest band first.
traffic_low_band(e) ==
    (e * 20 * ScoreUnit) \div TRAFFIC_THRESHOLDS.low

traffic_medium_band(e) ==
    20 * ScoreUnit
      + ((e - TRAFFIC_THRESHOLDS.low) * 30 * ScoreUnit) \div (TRAFFIC_THRESHOLDS.medium - TRAFFIC_THRESHOLDS.low)

\* the 50-80 band scaled by the width of the band below it
traffic_high_band_wrong_width(e) ==
    50 * ScoreUnit
      + ((e - TRAFFIC_THRESHOLDS.medium) * 30 * ScoreUnit) \div (TRAFFIC_THRESHOLDS.medium - TRAFFIC_THRESHOLDS.low)

traffic_high_band(e) ==
    50 * ScoreUnit
      + ((e - TRAFFIC_THRESHOLDS.medium) * 30 * ScoreUnit) \div (TRAFFIC_THRESHOLDS.high - TRAFFIC_THRESHOLDS.medium)

traffic_critical_band(e) ==
    80 * ScoreUnit
      + ((e - TRAFFIC_THRESHOLDS.high) * 20 * ScoreUnit) \div (SignalOne - TRAFFIC_THRESHOLDS.high)

traffic_effective_raw_only(congestion_level, congestion_7d_avg) ==
    congestion_level

traffic_effective(congestion_level, congestion_7d_avg) ==
    Max(congestion_level, congestion_7d_avg)

compute_traffic_risk_score(congestion_level, congestion_7d_avg) ==
    LET effective_congestion ==
            traffic_effective(congestion_level, congestion_7d_avg)
    IN  IF effective_congestion >= TRAFFIC_THRESHOLDS.high
          THEN Min(100 * ScoreUnit, traffic_critical_band(effective_congestion))
        ELSE IF effective_congestion >= TRAFFIC_THRESHOLDS.medium
          THEN traffic_high_band(effective_congestion)
        ELSE IF effective_congestion >= TRAFFIC_THRESHOLDS.low
          THEN traffic_medium_band(effective_congestion)
        ELSE traffic_low_band(effective_congestion)

\* what a float division by zero raises
ZeroDivisionError == "ZeroDivisionError: float division by zero"

\* the lowest band's excess taken relative to the signal itself
traffic_divisor_relative(e) == e

\* the number the selected band divides by
traffic_divisor(e) ==
    IF e >= TRAFFIC_THRESHOLDS.high
      THEN SignalOne - TRAFFIC_THRESHOLDS.high
    ELSE IF e >= TRAFFIC_THRESHOLDS.medium
      THEN TRAFFIC_THRESHOLDS.high - TRAFFIC_THRESHOLDS.medium
    ELSE IF e >= TRAFFIC_THRESHOLDS.low
      THEN TRAFFIC_THRESHOLDS.medium - TRAFFIC_THRESHOLDS.low
    ELSE TRAFFIC_THRESHOLDS.low

\* the exception the traffic scorer raises, "" if it returns
compute_traffic_risk_score_error(congestion_level, congestion_7d_avg) ==
    IF traffic_divisor(traffic_effective(congestion_level, congestion_7d_avg)) = 0
      THEN ZeroDivisionError
    ELSE ""

(***************************************************************************)
(* compute_weather_risk_score                                              *)
(***************************************************************************)
\* The four band formulas of the rainfall mapping, lowest band first.
rainfall_low_band(e) ==
    (e * 15 * ScoreUnit) \div WEATHER_THRESHOLDS.low

rainfall_medium_band(e) ==
    15 * ScoreUnit
      + ((e - WEATHER_THRESHOLDS.low) * 25 * ScoreUnit) \div (WEATHER_THRESHOLDS.medium - WEATHER_THRESHOLDS.low)

rainfall_high_band(e) ==
    40 * ScoreUnit
      + ((e - WEATHER_THRESHOLDS.medium) * 30 * ScoreUnit) \div (WEATHER_THRESHOLDS.high - WEATHER_THRESHOLDS.medium)

\* the top band scaled by the high threshold instead of the 50 mm ceiling
rainfall_critical_band_wrong_ceiling(e) ==
    70 * ScoreUnit
      + Min(((e - WEATHER_THRESHOLDS.high) * 30 * ScoreUnit)
                \div WEATHER_THRESHOLDS.high,
            30 * ScoreUnit)

\* The top band divides the excess by 50.0 mm and caps the ratio at 1.0.
rainfall_critical_band(e) ==
    70 * ScoreUnit
      + Min(((e - WEATHER_THRESHOLDS.high) * 30 * ScoreUnit) \div (50 * MM),
            30 * ScoreUnit)

rainfall_score(effective_rainfall) ==
    IF effective_rainfall >= WEATHER_THRESHOLDS.high
      THEN rainfall_critical_band(effective_rainfall)
    ELSE IF effective_rainfall >= WEATHER_THRESHOLDS.medium
      THEN rainfall_high_band(effective_rainfall)
    ELSE IF effective_rainfall >= WEATHER_THRESHOLDS.low
      THEN rainfall_medium_band(effective_rainfall)
    ELSE rainfall_low_band(effective_rainfall)

\* the penalty held to the "up to 10" and "up to 15" points of the comments
temp_risk_capped(temperature) ==
    IF temperature <= TEMPERATURE_THRESHOLDS.cold_risk
      THEN Min(10 * ScoreUnit,
               ((TEMPERATURE_THRESHOLDS.cold_risk - temperature) * 10 * ScoreUnit)
                   \div (10 * DEG))
    ELSE IF temperature >= TEMPERATURE_THRESHOLDS.hot_risk
      THEN Min(15 * ScoreUnit,
               ((temperature - TEMPERATURE_THRESHOLDS.hot_risk) * 15 * ScoreUnit)
                   \div (10 * DEG))
    ELSE 0

temp_risk(temperature) ==
    IF temperature <= TEMPERATURE_THRESHOLDS.cold_risk
      THEN ((TEMPERATURE_THRESHOLDS.cold_risk - temperature) * 10 * ScoreUnit)
             \div (10 * DEG)
    ELSE IF temperature >= TEMPERATURE_THRESHOLDS.hot_risk
      THEN ((temperature - TEMPERATURE_THRESHOLDS.hot_risk) * 15 * ScoreUnit)
             \div (10 * DEG)
    ELSE 0

weather_total_unclamped(score, penalty) == score + penalty

weather_total(score, penalty) == Min(100 * ScoreUnit, score + penalty)

compute_weather_risk_score(rainfall_mm, rainfall_7d_avg, temperature) ==
    LET effective_rainfall == Max(rainfall_mm, rainfall_7d_avg)
    IN  weather_total(rainfall_score(effective_rainfall),
                      temp_risk(temperature))

\* the number the selected rainfall band divides by
rainfall_divisor(e) ==
    IF e >= WEATHER_THRESHOLDS.high THEN 50 * MM
    ELSE IF e >= WEATHER_THRESHOLDS.medium
      THEN WEATHER_THRESHOLDS.high - WEATHER_THRESHOLDS.medium
    ELSE IF e >= WEATHER_THRESHOLDS.low
      THEN WEATHER_THRESHOLDS.medium - WEATHER_THRESHOLDS.low
    ELSE WEATHER_THRESHOLDS.low

\* the number the temperature penalty divides by (10.0 degrees)
temp_divisor(temperature) == 10 * DEG

\* the exception the weather scorer raises, "" if it returns
compute_weather_risk_score_error(rainfall_mm, rainfall_7d_avg, temperature) ==
    IF \/ rainfall_divisor(Max(rainfall_mm, rainfall_7d_avg)) = 0
       \/ temp_divisor(temperature) = 0
      THEN ZeroDivisionError
    ELSE ""

(***************************************************************************)
(* compute_demand_risk_score                                               *)
(***************************************************************************)
\* The four band formulas of the demand scorer, lowest band first.
\* the lowest band written like the others, base plus span
demand_low_band_with_base(e) ==
    10 * ScoreUnit + (e * 10 * ScoreUnit) \div DEMAND_THRESHOLDS.low

demand_low_band(e) ==
    (e * 10 * ScoreUnit) \div DEMAND_THRESHOLDS.low

\* the 10-30 band started at the base of the band above it
demand_medium_band_wrong_base(e) ==
    30 * ScoreUnit
      + ((e - DEMAND_THRESHOLDS.low) * 20 * ScoreUnit) \div (DEMAND_THRESHOLDS.medium - DEMAND_THRESHOLDS.low)

demand_medium_band(e) ==
    10 * ScoreUnit
      + ((e - DEMAND_THRESHOLDS.low) * 20 * ScoreUnit) \div (DEMAND_THRESHOLDS.medium - DEMAND_THRESHOLDS.low)

demand_high_band(e) ==
    30 * ScoreUnit
      + ((e - DEMAND_THRESHOLDS.medium) * 30 * ScoreUnit) \div (DEMAND_THRESHOLDS.high - DEMAND_THRESHOLDS.medium)

\* the 60-100 band given the 30-point span of the band below it
demand_surge_band_wrong_span(e) ==
    60 * ScoreUnit
      + ((e - DEMAND_THRESHOLDS.high) * 30 * ScoreUnit) \div (SignalOne - DEMAND_THRESHOLDS.high)

demand_surge_band(e) ==
    60 * ScoreUnit
      + ((e - DEMAND_THRESHOLDS.high) * 40 * ScoreUnit) \div (SignalOne - DEMAND_THRESHOLDS.high)

compute_demand_risk_score(demand_index, demand_7d_avg) ==
    LET effective_demand == Max(demand_index, demand_7d_avg)
    IN  IF effective_demand >= DEMAND_THRESHOLDS.high
          THEN Min(100 * ScoreUnit, demand_surge_band(effective_demand))
        ELSE IF effective_demand >= DEMAND_THRESHOLDS.medium
          THEN demand_high_band(effective_demand)
        ELSE IF effective_demand >= DEMAND_THRESHOLDS.low
          THEN demand_medium_band(effective_demand)
        ELSE demand_low_band(effective_demand)

\* the number the selected band divides by
demand_divisor(e) ==
    IF e >= DEMAND_THRESHOLDS.high THEN SignalOne - DEMAND_THRESHOLDS.high
    ELSE IF e >= DEMAND_THRESHOLDS.medium
      THEN DEMAND_THRESHOLDS.high - DEMAND_THRESHOLDS.medium
    ELSE IF e >= DEMAND_THRESHOLDS.low
      THEN DEMAND_THRESHOLDS.medium - DEMAND_THRESHOLDS.low
    ELSE DEMAND_THRESHOLDS.low

\* the exception the demand scorer raises, "" if it returns
compute_demand_risk_score_error(demand_index, demand_7d_avg) ==
    IF demand_divisor(Max(demand_index, demand_7d_avg)) = 0
      THEN ZeroDivisionError
    ELSE ""

(***************************************************************************)
(* compute_combined_risk_score, classify_risk                              *)
(***************************************************************************)
\* the weather and demand weights exchanged
compute_combined_risk_score_swapped(traffic_score, weather_score, demand_score) ==
    LET combined == traffic_score * RISK_WEIGHTS.traffic
                      + weather_score * RISK_WEIGHTS.demand
                      + demand_score * RISK_WEIGHTS.weather
    IN  Min(100 * CombinedUnit, Max(0, combined))

\* weights that sum to 2 instead of 1
compute_combined_risk_score_heavy(traffic_score, weather_score, demand_score) ==
    LET combined == traffic_score * 2 * RISK_WEIGHTS.traffic
                      + weather_score * 2 * RISK_WEIGHTS.weather
                      + demand_score * 2 * RISK_WEIGHTS.demand
    IN  Min(100 * CombinedUnit, Max(0, combined))

compute_combined_risk_score(traffic_score, weather_score, demand_score) ==
    LET combined == traffic_score * RISK_WEIGHTS.traffic
                      + weather_score * RISK_WEIGHTS.weather
                      + demand_score * RISK_WEIGHTS.demand
    IN  Min(100 * CombinedUnit, Max(0, combined))

\* boundaries exclusive on the lower tier
classify_risk_exclusive(risk_score) ==
    IF risk_score < RISK_SCORE_THRESHOLDS.low THEN "Low"
    ELSE IF risk_score < RISK_SCORE_THRESHOLDS.medium THEN "Medium"
    ELSE "High"

classify_risk(risk_score) ==
    IF risk_score <= RISK_SCORE_THRESHOLDS.low THEN "Low"
    ELSE IF risk_score <= RISK_SCORE_THRESHOLDS.medium THEN "Medium"
    ELSE "High"

(***************************************************************************)
(* _generate_alert_reason                                                  *)
(***************************************************************************)
\* Python's fixed-point format "{value:.<decimals>f}" of value = v / unit,
\* where unit = 10 ^ (decimals + 1): the value is rounded to the nearest
\* multiple of 10 units and printed with all its decimals, zero padded.
\* (A value exactly half way between two printed values is rounded by the
\* binary representation of the float; the inputs drawn below avoid them.)
Digit(d) == ToString(d)

RECURSIVE FracDigits(_, _)
FracDigits(n, decimals) ==
    IF decimals = 0 THEN ""
    ELSE FracDigits(n \div 10, decimals - 1) \o Digit(n % 10)

RECURSIVE Pow10(_)
Pow10(k) == IF k = 0 THEN 1 ELSE 10 * Pow10(k - 1)

FormatFixed(v, decimals) ==
    LET mag == IF v < 0 THEN 0 - v ELSE v
        n == (mag + 5) \div 10
        whole == n \div Pow10(decimals)
        frac == n % Pow10(decimals)
    IN  (IF v < 0 THEN "-" ELSE "")
          \o ToString(whole) \o "." \o FracDigits(frac, decimals)

RECURSIVE Join(_, _)
Join(parts, sep) ==
    IF Len(parts) = 0 THEN ""
    ELSE IF Len(parts) = 1 THEN parts[1]
    ELSE parts[1] \o sep \o Join(Tail(parts), sep)

\* The explanatory threshold of the reason clauses (60 points).
ALERT_COMPONENT_THRESHOLD == 60 * ScoreUnit

traffic_clause(row) ==
    "High traffic congestion (" \o FormatFixed(row.congestion_level, 2) \o ")"

weather_clause(row) ==
    "Heavy rainfall (" \o FormatFixed(row.rainfall_mm, 1) \o "mm)"

demand_clause(row) ==
    "Demand surge (" \o FormatFixed(row.demand_index, 2) \o ")"

\* clauses only for components strictly above the threshold
reason_clauses_strict(row) ==
    LET r1 == IF row.traffic_risk > ALERT_COMPONENT_THRESHOLD
                THEN <<traffic_clause(row)>> ELSE <<>>
        r2 == IF row.weather_risk > ALERT_COMPONENT_THRESHOLD
                THEN Append(r1, weather_clause(row)) ELSE r1
        r3 == IF row.demand_risk > ALERT_COMPONENT_THRESHOLD
                THEN Append(r2, demand_clause(row)) ELSE r2
    IN  IF r3 = <<>> THEN <<"Multiple risk factors combined">> ELSE r3

\* the fallback clause appended whenever fewer than two components are named
reason_clauses_eager_fallback(row) ==
    LET r1 == IF row.traffic_risk >= ALERT_COMPONENT_THRESHOLD
                THEN <<traffic_clause(row)>> ELSE <<>>
        r2 == IF row.weather_risk >= ALERT_COMPONENT_THRESHOLD
                THEN Append(r1, weather_clause(row)) ELSE r1
        r3 == IF row.demand_risk >= ALERT_COMPONENT_THRESHOLD
                THEN Append(r2, demand_clause(row)) ELSE r2
    IN  IF Len(r3) < 2 THEN Append(r3, "Multiple risk factors combined")
        ELSE r3

reason_clauses(row) ==
    LET r1 == IF row.traffic_risk >= ALERT_COMPONENT_THRESHOLD
                THEN <<traffic_clause(row)>> ELSE <<>>
        r2 == IF row.weather_risk >= ALERT_COMPONENT_THRESHOLD
                THEN Append(r1, weather_clause(row)) ELSE r1
        r3 == IF row.demand_risk >= ALERT_COMPONENT_THRESHOLD
                THEN Append(r2, demand_clause(row)) ELSE r2
    IN  IF r3 = <<>> THEN <<"Multiple risk factors combined">> ELSE r3

generate_alert_reason(row) == Join(reason_clauses(row), "; ")

(***************************************************************************)
(* get_city_tier (config.py)                                               *)
(***************************************************************************)
\* three of the listed cities and one of two words; the code's table gives
\* for each tier its list of cities, and no city is in two lists
CITY_TIERS ==
    ("Mumbai" :> "Tier 1") @@ ("Jaipur" :> "Tier 2")
        @@ ("Navi Mumbai" :> "Tier 2") @@ ("Kochi" :> "Tier 3")

LOWERCASE == "abcdefghijklmnopqrstuvwxyz"
UPPERCASE == "ABCDEFGHIJKLMNOPQRSTUVWXYZ"
WHITESPACE == {" ", "\t"}

char_at(str, i) == SubSeq(str, i, i)

\* the place of the character in the alphabet, 0 if it is not in it
position(ch, alphabet) ==
    IF \E i \in 1..Len(alphabet) : char_at(alphabet, i) = ch
      THEN CHOOSE i \in 1..Len(alphabet) : char_at(alphabet, i) = ch
    ELSE 0

\* each lower-case letter's upper-case letter, and the other way
TO_UPPER ==
    [ch \in {char_at(LOWERCASE, i) : i \in 1..Len(LOWERCASE)} |->
        char_at(UPPERCASE, position(ch, LOWERCASE))]

TO_LOWER ==
    [ch \in {char_at(UPPERCASE, i) : i \in 1..Len(UPPERCASE)} |->
        char_at(LOWERCASE, position(ch, UPPERCASE))]

is_cased(ch) == ch \in DOMAIN TO_UPPER \/ ch \in DOMAIN TO_LOWER

upper(ch) == IF ch \in DOMAIN TO_UPPER THEN TO_UPPER[ch] ELSE ch

lower(ch) == IF ch \in DOMAIN TO_LOWER THEN TO_LOWER[ch] ELSE ch

\* str.strip(): leading and trailing whitespace removed
RECURSIVE strip(_)
strip(str) ==
    IF Len(str) = 0 THEN str
    ELSE IF char_at(str, 1) \in WHITESPACE
      THEN strip(SubSeq(str, 2, Len(str)))
    ELSE IF char_at(str, Len(str)) \in WHITESPACE
      THEN strip(SubSeq(str, 1, Len(str) - 1))
    ELSE str

\* str.title(): a letter after a letter in lower case, any other letter in
\* upper case
RECURSIVE title_from(_, _)
title_from(str, i) ==
    IF i > Len(str) THEN ""
    ELSE (IF i > 1 /\ is_cased(char_at(str, i - 1))
            THEN lower(char_at(str, i))
          ELSE upper(char_at(str, i)))
           \o title_from(str, i + 1)

title(str) == title_from(str, 1)

\* the name looked up as it is written
get_city_tier_exact(city_name) ==
    IF city_name \in DOMAIN CITY_TIERS THEN CITY_TIERS[city_name]
    ELSE "Unknown"

get_city_tier(city_name) ==
    LET city_name_normalized == title(strip(city_name))
    IN  IF city_name_normalized \in DOMAIN CITY_TIERS
          THEN CITY_TIERS[city_name_normalized]
        ELSE "Unknown"

(***************************************************************************)
(* compute_risk_scores.  A table is its header (the set of column names)   *)
(* and its rows; a row is a function from the header to the values.        *)
(***************************************************************************)
\* the raw columns in the order the row functions read them
RAW_COLUMNS ==
    <<"congestion_level", "rainfall_mm", "temperature", "demand_index">>

AVG_COLUMNS ==
    {"congestion_level_7d_avg", "rainfall_mm_7d_avg", "demand_index_7d_avg"}

DERIVED_COLUMNS ==
    {"traffic_risk", "weather_risk", "demand_risk", "risk_score",
     "risk_classification", "city_tier"}

output_cols ==
    {"date", "city", "city_tier", "traffic_risk", "weather_risk",
     "demand_risk", "risk_score", "risk_classification", "congestion_level",
     "rainfall_mm", "temperature", "demand_index"}

\* row.get(key, default)
row_get(row, key, default) ==
    IF key \in DOMAIN row THEN row[key] ELSE default

\* the working frame's row after the six column assignments
with_risk_columns(row) ==
    LET traffic_risk == compute_traffic_risk_score(
                            row["congestion_level"],
                            row_get(row, "congestion_level_7d_avg",
                                    row["congestion_level"]))
        weather_risk == compute_weather_risk_score(
                            row["rainfall_mm"],
                            row_get(row, "rainfall_mm_7d_avg",
                                    row["rainfall_mm"]),
                            row["temperature"])
        demand_risk == compute_demand_risk_score(
                            row["demand_index"],
                            row_get(row, "demand_index_7d_avg",
                                    row["demand_index"]))
        risk_score == compute_combined_risk_score(
                            traffic_risk, weather_risk, demand_risk)
        derived == [traffic_risk |-> traffic_risk,
                    weather_risk |-> weather_risk,
                    demand_risk |-> demand_risk,
                    risk_score |-> risk_score,
                    risk_classification |-> classify_risk(risk_score),
                    city_tier |-> get_city_tier(row["city"])]
    IN  [col \in DOMAIN row \cup DERIVED_COLUMNS |->
            IF col \in DERIVED_COLUMNS THEN derived[col] ELSE row[col]]

\* df[output_cols], with only the columns that exist
risk_record(row) ==
    LET df_row == with_risk_columns(row)
    IN  [col \in output_cols \cap DOMAIN df_row |-> df_row[col]]

\* rows classified Low left out of the result
compute_risk_scores_skip_low(df) ==
    SelectSeq([i \in 1..Len(df) |-> risk_record(df[i])],
              LAMBDA r : r.risk_classification # "Low")

\* each row scored with the larger of its own and the previous row's demand
compute_risk_scores_carry(df) ==
    [i \in 1..Len(df) |->
        risk_record(
            IF i = 1 THEN df[i]
            ELSE [df[i] EXCEPT !["demand_index"] =
                      Max(df[i]["demand_index"], df[i - 1]["demand_index"])])]

compute_risk_scores(df) == [i \in 1..Len(df) |-> risk_record(df[i])]

\* df = features_df.copy(): the caller's frame is another object than the
\* working frame, so it is the same after the call as before.  Without the
\* copy the caller's frame would be the working frame.
caller_frame_aliased(original, working) == working

caller_frame(original, working) == original

\* the raw column a row function misses first, "" if none
first_missing(header) ==
    LET missing == {i \in 1..Len(RAW_COLUMNS) : RAW_COLUMNS[i] \notin header}
    IN  IF missing = {} THEN ""
        ELSE RAW_COLUMNS[CHOOSE i \in missing : \A k \in missing : i <= k]

\* the column whose row function reads the raw column
assigned_column(raw) ==
    CASE raw = "congestion_level" -> "traffic_risk"
      [] raw \in {"rainfall_mm", "temperature"} -> "weather_risk"
      [] raw = "demand_index" -> "demand_risk"

KeyError(key) == "KeyError: '" \o key \o "'"

SetItemError(column) ==
    "ValueError: Cannot set a DataFrame with multiple columns to the single column "
        \o column

\* what DataFrame.apply(f, axis=1) does on a table without rows depends on
\* the pandas build: "copy" (f is tried on an empty row, fails, and the table
\* itself comes back, which cannot be assigned to one column) or "reduce" (f
\* is tried on a row of NaN under the table's header; where it returns a
\* value an empty column comes back, where it raises the table comes back).
APPLY_EMPTY_BUILDS == {"copy", "reduce"}

\* the rolling averages read with row[...]: a missing one is a KeyError
compute_risk_scores_error_strict(header, df, build) ==
    IF Len(df) > 0 /\ AVG_COLUMNS \ header # {}
      THEN KeyError(CHOOSE col \in AVG_COLUMNS \ header : TRUE)
    ELSE ""

\* the error compute_risk_scores raises on the table, "" if it returns
compute_risk_scores_error(header, df, build) ==
    LET missing == first_missing(header)
    IN  IF Len(df) > 0
          THEN IF missing = "" THEN "" ELSE KeyError(missing)
        ELSE IF build = "copy" THEN SetItemError("traffic_risk")
        ELSE IF missing = "" THEN ""
        ELSE SetItemError(assigned_column(missing))

(***************************************************************************)
(* generate_alerts                                                         *)
(***************************************************************************)
\* "no date passed" (date = None); real dates are the day numbers 1, 2, ...
NoDate == 0

\* df['date'].max(); NaT (here NoDate) on an empty table
latest_date(df) ==
    IF Len(df) = 0 THEN NoDate
    ELSE CHOOSE d \in {df[i].date : i \in 1..Len(df)} :
             \A i \in 1..Len(df) : df[i].date <= d

\* the date argument ignored
target_date_always_latest(df, date) == latest_date(df)

target_date(df, date) == IF date # NoDate THEN date ELSE latest_date(df)

select_date(df, date) ==
    LET t == target_date(df, date)
    IN  SelectSeq(df, LAMBDA r : r.date = t)

select_high(df) == SelectSeq(df, LAMBDA r : r.risk_classification = "High")

\* lowest risk_score first
sort_orders_ascending(df) ==
    {p \in Permutations(1..Len(df)) :
        \A i, j \in 1..Len(df) :
            i < j => df[p[i]].risk_score <= df[p[j]].risk_score}

\* sort_values('risk_score', ascending=False): the default sort kind is not
\* stable, so rows of equal risk_score may come out in any order.  Every
\* ordering of the rows that is descending in risk_score is a possible result.
sort_orders(df) ==
    {p \in Permutations(1..Len(df)) :
        \A i, j \in 1..Len(df) :
            i < j => df[p[i]].risk_score >= df[p[j]].risk_score}

reorder(df, p) == [i \in 1..Len(df) |-> df[p[i]]]

\* the alert carries the risk score rounded down to whole points
with_alert_reason_rounded(row) ==
    [date |-> row.date,
     city |-> row.city,
     city_tier |-> row.city_tier,
     traffic_risk |-> row.traffic_risk,
     weather_risk |-> row.weather_risk,
     demand_risk |-> row.demand_risk,
     risk_score |-> (row.risk_score \div CombinedUnit) * CombinedUnit,
     risk_classification |-> row.risk_classification,
     congestion_level |-> row.congestion_level,
     rainfall_mm |-> row.rainfall_mm,
     temperature |-> row.temperature,
     demand_index |-> row.demand_index,
     alert_reason |-> generate_alert_reason(row)]

with_alert_reason(row) ==
    [date |-> row.date,
     city |-> row.city,
     city_tier |-> row.city_tier,
     traffic_risk |-> row.traffic_risk,
     weather_risk |-> row.weather_risk,
     demand_risk |-> row.demand_risk,
     risk_score |-> row.risk_score,
     risk_classification |-> row.risk_classification,
     congestion_level |-> row.congestion_level,
     rainfall_mm |-> row.rainfall_mm,
     temperature |-> row.temperature,
     demand_index |-> row.demand_index,
     alert_reason |-> generate_alert_reason(row)]

\* The possible return values of generate_alerts(risk_df, date).
generate_alerts(df, date) ==
    LET alerts == select_high(select_date(df, date))
    IN  {[i \in 1..Len(alerts) |-> with_alert_reason(reorder(alerts, p)[i])] :
            p \in sort_orders(alerts)}

\* alerts.apply(..., axis=1) on a selection without rows: in the "copy" build
\* the selection itself comes back and its assignment to alert_reason raises
apply_rows_fails(df, build) == Len(df) = 0 /\ build = "copy"

\* the error generate_alerts raises, "" if it returns
generate_alerts_error(df, date, build) ==
    IF apply_rows_fails(select_high(select_date(df, date)), build)
      THEN SetItemError("alert_reason")
    ELSE ""

\* to_csv(path) in append mode: the rows follow what the file held
to_csv_append(existing, table) == existing \o table

\* to_csv(path, index=False): the file holds the table and nothing else
to_csv(existing, table) == table

(***************************************************************************)
(* Bounds and input sets                                                   *)
(***************************************************************************)
SignalStepsBelow == 3     \* signal grid starts 0.01 * this below 0
SignalStepsAbove == 5     \* and ends 0.01 * this above 1
RainSteps == 36           \* rainfall grid ends at 2.5 mm * this
RainStepsBelow == 1       \* and starts 2.5 mm * this below 0
TempStepsBelow == 6       \* temperature grid starts 2.5 deg * this below 0
TempSteps == 24           \* and ends at 2.5 deg * this
ScoreStepsAbove == 2      \* component-score grid ends 5 points * this above 100
ClassifySteps == 10000    \* classify_risk is applied to 0.00 .. 0.01 * this
MaxRows == 2              \* rows of the feature table
NumDates == 2             \* distinct dates of the feature table
MaxRerunRows == 2         \* rows of a feature table of the repeated runs
MaxRuns == 2              \* invocations of run_risk_engine in a row

SignalGrid ==
    {10 * k : k \in (0 - SignalStepsBelow)..(100 + SignalStepsAbove)}

RainGrid == {250 * k : k \in (0 - RainStepsBelow)..RainSteps}

\* every 2.5 degrees, and 42 degrees
TempGrid == {25 * k : k \in (0 - TempStepsBelow)..TempSteps} \cup {420}

\* component scores handed to the combiner: every 5 points, and 79
ComponentGrid ==
    {5 * ScoreUnit * k : k \in (0 - 2)..(20 + ScoreStepsAbove)}
        \cup {79 * ScoreUnit}

\* combined scores handed to classify_risk: every 0.01 point, and two scores
\* outside 0..100
CombinedGrid ==
    {(CombinedUnit \div 100) * k : k \in 0..ClassifySteps}
        \cup {0 - 5 * CombinedUnit, 105 * CombinedUnit}

\* rows handed to _generate_alert_reason
ReasonScores ==
    {20 * ScoreUnit, 45 * ScoreUnit, 60 * ScoreUnit - 1, 60 * ScoreUnit,
     90 * ScoreUnit}

ReasonRows ==
    [traffic_risk : ReasonScores, weather_risk : ReasonScores,
     demand_risk : ReasonScores,
     congestion_level : {900, 304, 996},
     rainfall_mm : {4237, 96, 0},
     demand_index : {906, 60}]

\* signal profiles of feature rows: a storm day, a day that improved after a
\* bad week, a heavy-rain traffic jam, a moderate day, a calm day
FeatureProfiles ==
    {[congestion_level |-> 904, congestion_level_7d_avg |-> 700,
      rainfall_mm |-> 4237, rainfall_mm_7d_avg |-> 1000,
      temperature |-> 420,
      demand_index |-> 906, demand_index_7d_avg |-> 800],
     [congestion_level |-> 304, congestion_level_7d_avg |-> 950,
      rainfall_mm |-> 3500, rainfall_mm_7d_avg |-> 0,
      temperature |-> 250,
      demand_index |-> 880, demand_index_7d_avg |-> 500],
     [congestion_level |-> 996, congestion_level_7d_avg |-> 900,
      rainfall_mm |-> 8000, rainfall_mm_7d_avg |-> 2000,
      temperature |-> 50,
      demand_index |-> 400, demand_index_7d_avg |-> 300],
     [congestion_level |-> 600, congestion_level_7d_avg |-> 500,
      rainfall_mm |-> 1500, rainfall_mm_7d_avg |-> 96,
      temperature |-> 250,
      demand_index |-> 700, demand_index_7d_avg |-> 60],
     [congestion_level |-> 0, congestion_level_7d_avg |-> 0,
      rainfall_mm |-> 0, rainfall_mm_7d_avg |-> 0,
      temperature |-> 250,
      demand_index |-> 0, demand_index_7d_avg |-> 0]}

Dates == 1..NumDates

Cities == {"Mumbai", "Atlantis"}

\* city names handed to get_city_tier: listed, listed but written otherwise,
\* not listed
CityNames ==
    {"Mumbai", "mumbai", " Kochi ", "JAIPUR", "jaiPur", "navi mumbai",
     "Navi Mumbai", "Navi  Mumbai", "Mum bai", "Atlantis", "atlantis", "",
     "  ", "Kochi2"}

FeatureRows ==
    {[date |-> d, city |-> c,
      congestion_level |-> f.congestion_level,
      congestion_level_7d_avg |-> f.congestion_level_7d_avg,
      rainfall_mm |-> f.rainfall_mm,
      rainfall_mm_7d_avg |-> f.rainfall_mm_7d_avg,
      temperature |-> f.temperature,
      demand_index |-> f.demand_index,
      demand_index_7d_avg |-> f.demand_index_7d_avg] :
        d \in Dates, c \in Cities, f \in FeatureProfiles}

\* rows of the feature file: every profile for the city of the tier table,
\* the storm day for the city outside it
FileRows ==
    {r \in FeatureRows : r.city = "Mumbai" \/ r.congestion_level = 904}

FEATURE_COLUMNS ==
    {"date", "city", "congestion_level", "congestion_level_7d_avg",
     "rainfall_mm", "rainfall_mm_7d_avg", "temperature", "demand_index",
     "demand_index_7d_avg"}

\* headers of the feature file: complete, one rolling average missing, all
\* of them missing, one raw column missing, two raw columns missing
MissingColumnSets ==
    {{}} \cup {{col} : col \in AVG_COLUMNS} \cup {AVG_COLUMNS}
         \cup {{RAW_COLUMNS[i]} : i \in 1..Len(RAW_COLUMNS)}
         \cup {{"temperature", "rainfall_mm"}}

Headers == {FEATURE_COLUMNS \ missing : missing \in MissingColumnSets}

\* the row of a file with the given header
project(row, header) == [col \in header |-> row[col]]

\* the feature files run_risk_engine is run on again and again: a storm day
\* on each of two dates and a calm day
RerunRows ==
    {r \in FeatureRows :
        /\ r.city = "Mumbai"
        /\ \/ r.congestion_level = 904 /\ r.date \in {1, 2}
           \/ r.congestion_level = 0 /\ r.date = 2}

RerunHeaders == {FEATURE_COLUMNS, FEATURE_COLUMNS \ {"congestion_level"}}

RECURSIVE TablesOf(_, _)
TablesOf(rows, n) ==
    IF n = 0 THEN {<<>>}
    ELSE LET shorter == TablesOf(rows, n - 1)
         IN  shorter \cup {Append(t, r) : t \in shorter, r \in rows}

\* valid inputs of the scorers (section 3 of the data model)
ValidSignal(x) == 0 <= x /\ x <= SignalOne
ValidRain(x) == 0 <= x
ValidScore(x) == 0 <= x /\ x <= 100 * ScoreUnit

(***************************************************************************)
(* The engine's pure functions, each applied to inputs of its grid.  One    *)
(* application per behaviour: a call is made from the initial state.       *)
(***************************************************************************)
\* output_dir before the first run
NoFiles == [exist |-> FALSE, risk |-> <<>>, alerts |-> <<>>]

PipelineIdle ==
    /\ FetchIdle
    /\ DashboardIdle
    /\ columns = FEATURE_COLUMNS
    /\ features_df = <<>>
    /\ risk_df = <<>>
    /\ alerts_df = <<>>
    /\ alert_date = NoDate
    /\ error = ""
    /\ files = NoFiles
    /\ apply_empty_result = "reduce"
    /\ runs = 0
    /\ alerts_before = 0
    /\ pc = "idle"

ScoreInit ==
    /\ fn = "none"
    /\ args = <<>>
    /\ result = 0
    /\ PipelineIdle

Returns(f, a, r) ==
    /\ UNCHANGED <<fetch_vars, dashboard_vars>>
    /\ fn' = f
    /\ args' = a
    /\ result' = r
    /\ UNCHANGED <<columns, features_df, risk_df, alerts_df, alert_date, error,
                   files, apply_empty_result, runs, alerts_before, pc>>

\* the call ends in an exception and returns nothing
Raises(f, a, raised) ==
    /\ UNCHANGED <<fetch_vars, dashboard_vars>>
    /\ fn' = f
    /\ args' = a
    /\ error' = raised
    /\ UNCHANGED <<result, columns, features_df, risk_df, alerts_df,
                   alert_date, files, apply_empty_result, runs, alerts_before,
                   pc>>

CallTraffic ==
    /\ fn = "none"
    /\ \E raw \in SignalGrid, avg \in SignalGrid :
        IF compute_traffic_risk_score_error(raw, avg) # ""
          THEN Raises("compute_traffic_risk_score", <<raw, avg>>,
                      compute_traffic_risk_score_error(raw, avg))
        ELSE Returns("compute_traffic_risk_score", <<raw, avg>>,
                     compute_traffic_risk_score(raw, avg))

CallWeather ==
    /\ fn = "none"
    /\ \E raw \in RainGrid, avg \in RainGrid, t \in TempGrid :
        IF compute_weather_risk_score_error(raw, avg, t) # ""
          THEN Raises("compute_weather_risk_score", <<raw, avg, t>>,
                      compute_weather_risk_score_error(raw, avg, t))
        ELSE Returns("compute_weather_risk_score", <<raw, avg, t>>,
                     compute_weather_risk_score(raw, avg, t))

CallDemand ==
    /\ fn = "none"
    /\ \E raw \in SignalGrid, avg \in SignalGrid :
        IF compute_demand_risk_score_error(raw, avg) # ""
          THEN Raises("compute_demand_risk_score", <<raw, avg>>,
                      compute_demand_risk_score_error(raw, avg))
        ELSE Returns("compute_demand_risk_score", <<raw, avg>>,
                     compute_demand_risk_score(raw, avg))

CallCombined ==
    /\ fn = "none"
    /\ \E a \in ComponentGrid, b \in ComponentGrid, c \in ComponentGrid :
        Returns("compute_combined_risk_score", <<a, b, c>>,
                compute_combined_risk_score(a, b, c))

CallClassify ==
    /\ fn = "none"
    /\ \E s \in CombinedGrid :
        Returns("classify_risk", <<s>>, classify_risk(s))

CallAlertReason ==
    /\ fn = "none"
    /\ \E row \in ReasonRows :
        Returns("_generate_alert_reason", <<row>>, generate_alert_reason(row))

CallRiskRecord ==
    /\ fn = "none"
    /\ \E row \in FeatureRows :
        Returns("compute_risk_scores", <<row>>, risk_record(row))

CallCityTier ==
    /\ fn = "none"
    /\ \E city_name \in CityNames :
        Returns("get_city_tier", <<city_name>>, get_city_tier(city_name))

ScoreNext ==
    \/ CallRiskRecord
    \/ CallCityTier
    \/ CallTraffic
    \/ CallWeather
    \/ CallDemand
    \/ CallCombined
    \/ CallClassify
    \/ CallAlertReason

ScoreSpec == ScoreInit /\ [][ScoreNext]_vars

(***************************************************************************)
(* The engine run: the feature table is read, compute_risk_scores builds   *)
(* the risk table, generate_alerts builds the alert table.                 *)
(***************************************************************************)
Init ==
    /\ FetchIdle
    /\ DashboardIdle
    /\ fn = "none"
    /\ args = <<>>
    /\ result = 0
    /\ columns \in Headers
    /\ features_df = <<>>
    /\ risk_df = <<>>
    /\ alerts_df = <<>>
    /\ alert_date = NoDate
    /\ error = ""
    /\ files = NoFiles
    /\ apply_empty_result \in APPLY_EMPTY_BUILDS
    /\ runs = 1
    /\ alerts_before = 0
    /\ pc = "load"

\* one more row of the feature file
ReadFeatureRow ==
    /\ UNCHANGED <<fetch_vars, dashboard_vars>>
    /\ pc = "load"
    /\ Len(features_df) < MaxRows
    /\ \E row \in FileRows :
          features_df' = Append(features_df, project(row, columns))
    /\ UNCHANGED <<fn, args, result, columns, risk_df, alerts_df, alert_date,
                   error, files, apply_empty_result, runs, alerts_before, pc>>

\* the working frame after the column assignments
working_frame(df) == [i \in 1..Len(df) |-> with_risk_columns(df[i])]

ComputeRiskScores ==
    /\ UNCHANGED <<fetch_vars, dashboard_vars>>
    /\ pc = "load"
    /\ LET raised == compute_risk_scores_error(columns, features_df,
                                               apply_empty_result)
       IN  IF raised # ""
             THEN /\ error' = raised
                  /\ pc' = "scores_error"
                  /\ UNCHANGED <<features_df, risk_df>>
             ELSE /\ risk_df' = compute_risk_scores(features_df)
                  /\ features_df' =
                         caller_frame(features_df, working_frame(features_df))
                  /\ pc' = "scored"
                  /\ UNCHANGED error
    /\ UNCHANGED <<fn, args, result, columns, alerts_df, alert_date, files,
                   apply_empty_result, runs, alerts_before>>

\* generate_alerts(risk_df) as run_risk_engine calls it, or with a date as
\* the function allows.  The frame it is given is only read: every selection
\* is a new frame, and alert_reason is set on the copy of the High rows.
GenerateAlerts ==
    /\ UNCHANGED <<fetch_vars, dashboard_vars>>
    /\ pc = "scored"
    /\ \E date \in {NoDate} \cup Dates :
          /\ alert_date' = date
          /\ LET raised == generate_alerts_error(risk_df, date,
                                                 apply_empty_result)
             IN  IF raised # ""
                   THEN /\ error' = raised
                        /\ pc' = "alerts_error"
                        /\ UNCHANGED alerts_df
                   ELSE /\ alerts_df' \in generate_alerts(risk_df, date)
                        /\ pc' = "alerted"
                        /\ UNCHANGED error
    /\ UNCHANGED <<fn, args, result, columns, features_df, risk_df, files,
                   apply_empty_result, runs, alerts_before>>

\* both tables written to output_dir
SaveOutputs ==
    /\ UNCHANGED <<fetch_vars, dashboard_vars>>
    /\ pc = "alerted"
    /\ alert_date = NoDate
    /\ files' = [exist |-> TRUE,
                 risk |-> to_csv(files.risk, risk_df),
                 alerts |-> to_csv(files.alerts, alerts_df)]
    /\ alerts_before' = Len(files.alerts)
    /\ pc' = "saved"
    /\ UNCHANGED <<fn, args, result, columns, features_df, risk_df, alerts_df,
                   alert_date, error, apply_empty_result, runs>>

\* risk_df['date'].min().date() of a risk table without rows: the minimum is
\* NaT or NaN according to the column's type, and only NaT has date()
REPORT_ERROR == "AttributeError: 'float' object has no attribute 'date'"

report_outcomes(risk) ==
    IF Len(risk) = 0 THEN {"", REPORT_ERROR} ELSE {""}

\* the summary printed, the tables returned
ReportAndReturn ==
    /\ UNCHANGED <<fetch_vars, dashboard_vars>>
    /\ pc = "saved"
    /\ \E raised \in report_outcomes(risk_df) :
          /\ error' = raised
          /\ pc' = IF raised = "" THEN "returned" ELSE "report_error"
    /\ UNCHANGED <<fn, args, result, columns, features_df, risk_df, alerts_df,
                   alert_date, files, apply_empty_result, runs, alerts_before>>

(***************************************************************************)
(* The alerts section of the dashboard (src/dashboard.py)                  *)
(***************************************************************************)
\* pd.read_csv(file, parse_dates=['date']) of a table written by to_csv: the
\* numbers are written with all their digits and the dates as dates, so the
\* table read is the table written
read_csv(file) == file

\* "{score:.<decimals>f}" of a component score, rounded to the nearest
\* printed value
FormatScore(score, decimals) ==
    LET mag == IF score < 0 THEN 0 - score ELSE score
        n == (2 * mag * Pow10(decimals) + ScoreUnit) \div (2 * ScoreUnit)
        whole == n \div Pow10(decimals)
        frac == n % Pow10(decimals)
    IN  (IF score < 0 /\ n > 0 THEN "-" ELSE "")
          \o ToString(whole) \o "." \o FracDigits(frac, decimals)

\* the reason the dashboard writes itself for a row of the risk table
synthesized_reason(row) ==
    IF "traffic_risk" \in DOMAIN row
      THEN "High traffic congestion ("
             \o FormatScore(row_get(row, "traffic_risk", 0), 2)
             \o "); Heavy rainfall ("
             \o FormatScore(row_get(row, "weather_risk", 0), 1)
             \o "mm); Demand surge ("
             \o FormatScore(row_get(row, "demand_risk", 0), 2) \o ")"
    ELSE "Multiple risk factors"

with_synthesized_reason(row) ==
    [c \in DOMAIN row \cup {"alert_reason"} |->
        IF c = "alert_reason" THEN synthesized_reason(row) ELSE row[c]]

\* risk_df['date'].unique(): the options of the date selector
available_dates(risk) == {risk[i].date : i \in 1..Len(risk)}

\* date_alerts before it is sorted: the alerts of the file for the selected
\* date if there are any; else, if the file has alerts at all, the High rows
\* of the date with a reason written here; else those rows as they are
alerts_of_date(risk, alerts, date) ==
    LET filtered_df == SelectSeq(risk, LAMBDA r : r.date = date)
        high == select_high(filtered_df)
        alerts_for_date == SelectSeq(alerts, LAMBDA a : a.date = date)
    IN  IF Len(alerts) > 0
          THEN IF Len(alerts_for_date) > 0 THEN alerts_for_date
               ELSE [i \in 1..Len(high) |-> with_synthesized_reason(high[i])]
        ELSE high

\* the text of an alert card: alert.get('alert_reason', 'Multiple risk factors')
shown_reason(alert) == row_get(alert, "alert_reason", "Multiple risk factors")

\* The dashboard loads the two files of a finished run and shows the alerts
\* of a selected date, every city and every risk level selected.
ShowAlerts ==
    /\ pc = "returned"
    /\ files.exist
    /\ \E date \in available_dates(read_csv(files.risk)) :
          LET shown == alerts_of_date(read_csv(files.risk),
                                      read_csv(files.alerts), date)
          IN  /\ selected_date' = date
              /\ \E p \in sort_orders(shown) :
                    date_alerts' = reorder(shown, p)
    /\ pc' = "shown"
    /\ UNCHANGED <<fn, args, result, columns, features_df, risk_df, alerts_df,
                   alert_date, error, files, apply_empty_result, runs,
                   alerts_before, fetch_vars>>

Next ==
    \/ ReadFeatureRow
    \/ ComputeRiskScores
    \/ GenerateAlerts
    \/ SaveOutputs
    \/ ReportAndReturn
    \/ ShowAlerts

Spec == Init /\ [][Next]_vars

(***************************************************************************)
(* run_risk_engine invoked again and again on the same output_dir          *)
(***************************************************************************)
\* what one invocation can end in: the exception, the tables returned (none
\* when it raises) and the files in output_dir afterwards
run_risk_engine(header, table, build, disk) ==
    LET scores_error == compute_risk_scores_error(header, table, build)
        risk == compute_risk_scores(table)
        alerts_error == generate_alerts_error(risk, NoDate, build)
        written(alerts) == [exist |-> TRUE,
                            risk |-> to_csv(disk.risk, risk),
                            alerts |-> to_csv(disk.alerts, alerts)]
    IN  IF scores_error # ""
          THEN {[error |-> scores_error, pc |-> "scores_error",
                 risk_df |-> <<>>, alerts_df |-> <<>>, files |-> disk]}
        ELSE IF alerts_error # ""
          THEN {[error |-> alerts_error, pc |-> "alerts_error",
                 risk_df |-> <<>>, alerts_df |-> <<>>, files |-> disk]}
        ELSE {[error |-> raised,
               pc |-> IF raised = "" THEN "returned" ELSE "report_error",
               risk_df |-> IF raised = "" THEN risk ELSE <<>>,
               alerts_df |-> IF raised = "" THEN alerts ELSE <<>>,
               files |-> written(alerts)] :
                  raised \in report_outcomes(risk),
                  alerts \in generate_alerts(risk, NoDate)}

RerunInit ==
    /\ FetchIdle
    /\ DashboardIdle
    /\ fn = "none"
    /\ args = <<>>
    /\ result = 0
    /\ columns = FEATURE_COLUMNS
    /\ features_df = <<>>
    /\ risk_df = <<>>
    /\ alerts_df = <<>>
    /\ alert_date = NoDate
    /\ error = ""
    /\ files = NoFiles
    /\ apply_empty_result \in APPLY_EMPTY_BUILDS
    /\ runs = 0
    /\ alerts_before = 0
    /\ pc = "start"

RunRiskEngine ==
    /\ UNCHANGED <<fetch_vars, dashboard_vars>>
    /\ runs < MaxRuns
    /\ \E header \in RerunHeaders :
       \E table \in TablesOf(RerunRows, MaxRerunRows) :
       \E end \in run_risk_engine(header, [i \in 1..Len(table) |->
                                              project(table[i], header)],
                                  apply_empty_result, files) :
          /\ columns' = header
          /\ features_df' = [i \in 1..Len(table) |-> project(table[i], header)]
          /\ risk_df' = end.risk_df
          /\ alerts_df' = end.alerts_df
          /\ error' = end.error
          /\ files' = end.files
          /\ pc' = end.pc
    /\ runs' = runs + 1
    /\ alerts_before' = Len(files.alerts)
    /\ UNCHANGED <<fn, args, result, alert_date, apply_empty_result>>

RerunNext == RunRiskEngine

RerunSpec == RerunInit /\ [][RerunNext]_vars

(***************************************************************************)
(* Properties of the pure functions (checked under ScoreSpec)              *)
(***************************************************************************)
IsTraffic == fn = "compute_traffic_risk_score"
IsWeather == fn = "compute_weather_risk_score"
IsDemand == fn = "compute_demand_risk_score"
IsCombined == fn = "compute_combined_risk_score"
IsClassify == fn = "classify_risk"
IsAlertReason == fn = "_generate_alert_reason"
IsRiskRecord == fn = "compute_risk_scores"

\* C1: for valid inputs (signals and their averages in [0,1], rainfall and
\* its average >= 0, any temperature) each component score lies in [0,100],
\* and the combined score of component scores in [0,100] lies in [0,100].
C1_RangeInvariant ==
    /\ (IsTraffic /\ ValidSignal(args[1]) /\ ValidSignal(args[2]))
          => ValidScore(result)
    /\ (IsWeather /\ ValidRain(args[1]) /\ ValidRain(args[2]))
          => ValidScore(result)
    /\ (IsDemand /\ ValidSignal(args[1]) /\ ValidSignal(args[2]))
          => ValidScore(result)
    /\ (IsCombined /\ \A i \in 1..3 : ValidScore(args[i]))
          => (0 <= result /\ result <= 100 * CombinedUnit)
    /\ (/\ IsRiskRecord
        /\ ValidSignal(args[1].congestion_level)
        /\ ValidSignal(args[1].congestion_level_7d_avg)
        /\ ValidRain(args[1].rainfall_mm)
        /\ ValidRain(args[1].rainfall_mm_7d_avg)
        /\ ValidSignal(args[1].demand_index)
        /\ ValidSignal(args[1].demand_index_7d_avg))
          => /\ ValidScore(result.traffic_risk)
             /\ ValidScore(result.weather_risk)
             /\ ValidScore(result.demand_risk)
             /\ 0 <= result.risk_score
             /\ result.risk_score <= 100 * CombinedUnit

\* heavy rain in extreme heat: rainfall score plus penalty exceed 100 and the
\* weather score is 100
C1_Witness ==
    /\ IsWeather
    /\ ValidRain(args[1]) /\ ValidRain(args[2])
    /\ rainfall_score(Max(args[1], args[2])) + temp_risk(args[3])
          > 100 * ScoreUnit
    /\ result = 100 * ScoreUnit

\* C2: with the rolling average (and the temperature) fixed, a larger raw
\* signal never gives a smaller component score.
C2_Monotone ==
    /\ IsTraffic =>
          \A raw2 \in SignalGrid :
              args[1] <= raw2 =>
                  result <= compute_traffic_risk_score(raw2, args[2])
    /\ IsWeather =>
          \A raw2 \in RainGrid :
              args[1] <= raw2 =>
                  result <= compute_weather_risk_score(raw2, args[2], args[3])
    /\ IsDemand =>
          \A raw2 \in SignalGrid :
              args[1] <= raw2 =>
                  result <= compute_demand_risk_score(raw2, args[2])

\* a raw demand just below the high breakpoint scores less than the raw
\* demand at the breakpoint, and a raw signal past the clamp scores 100
C2_Witness ==
    \/ /\ IsDemand
       /\ args = <<DEMAND_THRESHOLDS.high - 10, DEMAND_THRESHOLDS.low>>
       /\ result < compute_demand_risk_score(DEMAND_THRESHOLDS.high, args[2])
    \/ /\ IsTraffic
       /\ args[1] > SignalOne /\ args[2] < args[1]
       /\ result = 100 * ScoreUnit

\* C3: at each breakpoint the formula of the band below gives the value the
\* scorer returns there (computed by the band at/above): traffic 20, 50, 80;
\* rainfall mapping 15, 40, 70; demand 10, 30, 60.
C3_BoundaryContinuity ==
    LET e == Max(args[1], args[2])
    IN  /\ IsTraffic =>
              /\ e = TRAFFIC_THRESHOLDS.low =>
                    result = traffic_low_band(e) /\ result = 20 * ScoreUnit
              /\ e = TRAFFIC_THRESHOLDS.medium =>
                    result = traffic_medium_band(e) /\ result = 50 * ScoreUnit
              /\ e = TRAFFIC_THRESHOLDS.high =>
                    result = traffic_high_band(e) /\ result = 80 * ScoreUnit
        /\ IsDemand =>
              /\ e = DEMAND_THRESHOLDS.low =>
                    result = demand_low_band(e) /\ result = 10 * ScoreUnit
              /\ e = DEMAND_THRESHOLDS.medium =>
                    result = demand_medium_band(e) /\ result = 30 * ScoreUnit
              /\ e = DEMAND_THRESHOLDS.high =>
                    result = demand_high_band(e) /\ result = 60 * ScoreUnit
        /\ (IsWeather /\ temp_risk(args[3]) = 0) =>
              /\ e = WEATHER_THRESHOLDS.low =>
                    result = rainfall_low_band(e) /\ result = 15 * ScoreUnit
              /\ e = WEATHER_THRESHOLDS.medium =>
                    result = rainfall_medium_band(e) /\ result = 40 * ScoreUnit
              /\ e = WEATHER_THRESHOLDS.high =>
                    result = rainfall_high_band(e) /\ result = 70 * ScoreUnit

C3_Witness ==
    /\ IsTraffic
    /\ Max(args[1], args[2]) = TRAFFIC_THRESHOLDS.high
    /\ result = 80 * ScoreUnit

\* C4: classify_risk gives Low for score <= 30, Medium for 30 < score <= 60,
\* High for score > 60; 30.00 is Low, 30.01 Medium, 60.00 Medium, 60.01 High.
C4_Classification ==
    IsClassify =>
        LET s == args[1]
            hundredth == CombinedUnit \div 100
        IN  /\ result \in {"Low", "Medium", "High"}
            /\ result = "Low" <=> s <= 30 * CombinedUnit
            /\ result = "Medium" <=>
                   (30 * CombinedUnit < s /\ s <= 60 * CombinedUnit)
            /\ result = "High" <=> s > 60 * CombinedUnit
            /\ s = 3000 * hundredth => result = "Low"
            /\ s = 3001 * hundredth => result = "Medium"
            /\ s = 6000 * hundredth => result = "Medium"
            /\ s = 6001 * hundredth => result = "High"

C4_Witness ==
    /\ IsClassify
    /\ args[1] = 60 * CombinedUnit
    /\ result = "Medium"

\* C5: for component scores a, b, c in [0,100] the combined score is
\* 0.40 a + 0.35 b + 0.25 c clamped to [0,100]; 90, 79, 50 give 76.15, High.
C5_CombinerLinearity ==
    (IsCombined /\ \A i \in 1..3 : ValidScore(args[i])) =>
        LET weighted == 40 * args[1] + 35 * args[2] + 25 * args[3]
        IN  /\ result = Min(100 * CombinedUnit, Max(0, weighted))
            /\ args = <<90 * ScoreUnit, 79 * ScoreUnit, 50 * ScoreUnit>> =>
                  /\ result = 7615 * (CombinedUnit \div 100)
                  /\ classify_risk(result) = "High"

C5_Witness ==
    /\ IsCombined
    /\ args = <<90 * ScoreUnit, 79 * ScoreUnit, 50 * ScoreUnit>>
    /\ result = 7615 * (CombinedUnit \div 100)

\* What Python prints for the raw values of ReasonRows.
Printed2 ==
    (900 :> "0.90" @@ 304 :> "0.30" @@ 996 :> "1.00"
       @@ 906 :> "0.91" @@ 60 :> "0.06")

Printed1 == (4237 :> "42.4" @@ 96 :> "1.0" @@ 0 :> "0.0")

Contains(str, sub) ==
    \E i \in 1..(Len(str) - Len(sub) + 1) :
        SubSeq(str, i, i + Len(sub) - 1) = sub

ExpectedClauses(row) ==
    (IF row.traffic_risk >= 60 * ScoreUnit
       THEN <<"High traffic congestion ("
                \o Printed2[row.congestion_level] \o ")">>
       ELSE <<>>)
    \o (IF row.weather_risk >= 60 * ScoreUnit
          THEN <<"Heavy rainfall (" \o Printed1[row.rainfall_mm] \o "mm)">>
          ELSE <<>>)
    \o (IF row.demand_risk >= 60 * ScoreUnit
          THEN <<"Demand surge (" \o Printed2[row.demand_index] \o ")">>
          ELSE <<>>)

RECURSIVE JoinWith(_, _)
JoinWith(parts, sep) ==
    IF parts = <<>> THEN ""
    ELSE IF Len(parts) = 1 THEN Head(parts)
    ELSE Head(parts) \o sep \o JoinWith(Tail(parts), sep)

\* C8: the reason holds one clause per component with score >= 60 and none
\* for a component below 60, in the order traffic, weather, demand, joined
\* by "; ", each showing the row's raw value (2, 1, 2 decimals).
C8_ReasonClauses ==
    IsAlertReason =>
        LET row == args[1]
        IN  /\ ExpectedClauses(row) # <<>> =>
                  result = JoinWith(ExpectedClauses(row), "; ")
            /\ row.traffic_risk < 60 * ScoreUnit =>
                  ~Contains(result, "traffic congestion")
            /\ row.weather_risk < 60 * ScoreUnit =>
                  ~Contains(result, "rainfall")
            /\ row.demand_risk < 60 * ScoreUnit =>
                  ~Contains(result, "Demand surge")
            /\ (/\ row.traffic_risk = 90 * ScoreUnit
                /\ row.congestion_level = 900
                /\ row.weather_risk = 45 * ScoreUnit
                /\ row.demand_risk = 20 * ScoreUnit) =>
                  result = "High traffic congestion (0.90)"

\* all three components at or above 60, one of them exactly 60
C8_Witness ==
    /\ IsAlertReason
    /\ args[1].traffic_risk = 60 * ScoreUnit
    /\ args[1].congestion_level = 996
    /\ args[1].rainfall_mm = 4237
    /\ args[1].demand_index = 60
    /\ result = "High traffic congestion (1.00); Heavy rainfall (42.4mm); "
                   \o "Demand surge (0.06)"

\* C9: with no component >= 60 the reason is exactly "Multiple risk factors
\* combined"; with some component >= 60 that clause does not appear.
C9_Fallback ==
    IsAlertReason =>
        LET row == args[1]
            none == /\ row.traffic_risk < 60 * ScoreUnit
                    /\ row.weather_risk < 60 * ScoreUnit
                    /\ row.demand_risk < 60 * ScoreUnit
        IN  /\ none => result = "Multiple risk factors combined"
            /\ ~none => ~Contains(result, "Multiple risk factors combined")

\* every component just below 60
C9_Witness ==
    /\ IsAlertReason
    /\ args[1].traffic_risk = 60 * ScoreUnit - 1
    /\ args[1].weather_risk = 60 * ScoreUnit - 1
    /\ args[1].demand_risk = 60 * ScoreUnit - 1
    /\ result = "Multiple risk factors combined"

\* C10: each scorer reads raw and rolling average only through their
\* maximum: score(raw, avg) = score(max, max) = score(avg, raw), and for
\* raw <= avg it is the score of the average alone.
C10_EffectiveSignal ==
    LET m == Max(args[1], args[2])
    IN  /\ IsTraffic =>
              /\ result = compute_traffic_risk_score(m, m)
              /\ result = compute_traffic_risk_score(args[2], args[1])
              /\ args[1] <= args[2] =>
                    result = compute_traffic_risk_score(args[2], args[2])
        /\ IsDemand =>
              /\ result = compute_demand_risk_score(m, m)
              /\ result = compute_demand_risk_score(args[2], args[1])
              /\ args[1] <= args[2] =>
                    result = compute_demand_risk_score(args[2], args[2])
        /\ IsWeather =>
              /\ result = compute_weather_risk_score(m, m, args[3])
              /\ result = compute_weather_risk_score(args[2], args[1], args[3])
              /\ args[1] <= args[2] =>
                    result = compute_weather_risk_score(
                                 args[2], args[2], args[3])

\* a day that improved after a bad week: scored as the week, above what the
\* day alone would score
C10_Witness ==
    /\ IsTraffic
    /\ args[1] = 200 /\ args[2] = 700
    /\ result = compute_traffic_risk_score(700, 700)
    /\ result > compute_traffic_risk_score(200, 200)

(***************************************************************************)
(* Properties of the alert table (checked under Spec)                      *)
(***************************************************************************)
RiskColumns ==
    {"date", "city", "city_tier", "traffic_risk", "weather_risk",
     "demand_risk", "risk_score", "risk_classification", "congestion_level",
     "rainfall_mm", "temperature", "demand_index"}

RiskPart(alert) == [c \in RiskColumns |-> alert[c]]

Count(df, P(_)) == Cardinality({i \in 1..Len(df) : P(df[i])})

\* the date generate_alerts was to report on
ReportedDate ==
    IF alert_date # NoDate THEN alert_date
    ELSE CHOOSE d \in Dates :
             /\ \E i \in 1..Len(risk_df) : risk_df[i].date = d
             /\ \A i \in 1..Len(risk_df) : risk_df[i].date <= d

Wanted(r) == r.date = ReportedDate /\ r.risk_classification = "High"

\* C6: the alert table holds exactly the rows of the risk table that are of
\* the target date and classified High (each as often as the risk table
\* holds it); without a date argument the target is the latest date present.
C6_ExactlyHighOfDate ==
    pc = "alerted" =>
        /\ \A i \in 1..Len(alerts_df) : Wanted(alerts_df[i])
        /\ \A j \in 1..Len(risk_df) :
              Wanted(risk_df[j]) =>
                  Count(alerts_df, LAMBDA a : RiskPart(a) = risk_df[j])
                      = Count(risk_df, LAMBDA r : r = risk_df[j])
        /\ Len(alerts_df) = Count(risk_df, Wanted)

\* no date passed; a High row of an earlier date is left out
C6_Witness ==
    /\ pc = "alerted"
    /\ alert_date = NoDate
    /\ Len(alerts_df) = 1
    /\ \E j \in 1..Len(risk_df) :
          /\ risk_df[j].risk_classification = "High"
          /\ risk_df[j].date < alerts_df[1].date

\* C7: the alert table is in descending order of risk_score.
C7_SortedDescending ==
    pc = "alerted" =>
        \A i, j \in 1..Len(alerts_df) :
            i < j => alerts_df[i].risk_score >= alerts_df[j].risk_score

\* two alerts whose rows stood in ascending order in the risk table
C7_Witness ==
    /\ pc = "alerted"
    /\ Len(alerts_df) = 2
    /\ Len(risk_df) = 2
    /\ risk_df[1].risk_score < risk_df[2].risk_score
    /\ alerts_df[1].risk_score > alerts_df[2].risk_score

(***************************************************************************)
(* The scorers' formulas (checked under ScoreSpec)                         *)
(***************************************************************************)
\* score = lo + (hi - lo) * (e - from) / (to - from), without division
OnSegment(score, e, from, to, lo, hi) ==
    (score - lo * ScoreUnit) * (to - from) = (hi - lo) * ScoreUnit * (e - from)

\* C11: for e = max(raw, avg) in [0,1] the traffic score is 20 e / 0.3 below
\* 0.3, 20 + 30 (e - 0.3) / 0.3 up to 0.6, 50 + 30 (e - 0.6) / 0.2 up to 0.8,
\* min(100, 80 + 20 (e - 0.8) / 0.2) from 0.8; demand has the same shape on
\* 0.5 / 0.7 / 0.85 with bands 0-10, 10-30, 30-60, 60-100.  Congestion 0.9
\* with average 0.5 scores 90; e = 1.0 scores 100 for both.
C11_TrafficDemandFormula ==
    LET e == Max(args[1], args[2])
    IN  /\ (IsTraffic /\ ValidSignal(e)) =>
              /\ e < 300 => OnSegment(result, e, 0, 300, 0, 20)
              /\ (300 <= e /\ e < 600) =>
                    OnSegment(result, e, 300, 600, 20, 50)
              /\ (600 <= e /\ e < 800) =>
                    OnSegment(result, e, 600, 800, 50, 80)
              /\ 800 <= e => OnSegment(result, e, 800, 1000, 80, 100)
              /\ args = <<900, 500>> => result = 90 * ScoreUnit
              /\ e = 1000 => result = 100 * ScoreUnit
        /\ (IsDemand /\ ValidSignal(e)) =>
              /\ e < 500 => OnSegment(result, e, 0, 500, 0, 10)
              /\ (500 <= e /\ e < 700) =>
                    OnSegment(result, e, 500, 700, 10, 30)
              /\ (700 <= e /\ e < 850) =>
                    OnSegment(result, e, 700, 850, 30, 60)
              /\ 850 <= e => OnSegment(result, e, 850, 1000, 60, 100)
              /\ e = 1000 => result = 100 * ScoreUnit

C11_Witness ==
    /\ IsTraffic
    /\ args = <<900, 500>>
    /\ result = 90 * ScoreUnit

\* the rainfall mapping R in score units, e in hundredths of a millimetre:
\* 15 e / 5 below 5 mm, 15 + 25 (e - 5) / 10 up to 15 mm,
\* 40 + 30 (e - 15) / 15 up to 30 mm, 70 + 30 min((e - 30) / 50, 1) from 30 mm
ExpectedRain(e) ==
    IF e < 500 THEN 90 * e
    ELSE IF e < 1500 THEN 15 * ScoreUnit + 75 * (e - 500)
    ELSE IF e < 3000 THEN 40 * ScoreUnit + 60 * (e - 1500)
    ELSE 70 * ScoreUnit + Min(18 * (e - 3000), 30 * ScoreUnit)

\* the temperature penalty P in score units, T in tenths of a degree:
\* 10 - T below 10 degrees, 1.5 (T - 40) above 40 degrees, 0 between
ExpectedPenalty(t) ==
    IF t < 100 THEN 300 * (100 - t)
    ELSE IF t > 400 THEN 450 * (t - 400)
    ELSE 0

\* C12: for rainfall that is not negative the weather score is
\* min(100, R(e) + P(T)) with e = max(rainfall_mm, rainfall_7d_avg); R stays in
\* its bands 0-15, 15-40, 40-70, 70-100 and is 100 from 80 mm on; rainfall 40,
\* average 10, temperature 42 give 76 + 3 = 79.
C12_WeatherFormula ==
    IsWeather =>
        LET e == Max(args[1], args[2])
            r == ExpectedRain(e)
        IN  /\ ValidRain(e) =>
                  /\ result = Min(100 * ScoreUnit, r + ExpectedPenalty(args[3]))
                  /\ e < 500 => r < 15 * ScoreUnit
                  /\ (500 <= e /\ e < 1500) =>
                        (15 * ScoreUnit <= r /\ r < 40 * ScoreUnit)
                  /\ (1500 <= e /\ e < 3000) =>
                        (40 * ScoreUnit <= r /\ r < 70 * ScoreUnit)
                  /\ 3000 <= e => (70 * ScoreUnit <= r /\ r <= 100 * ScoreUnit)
                  /\ 8000 <= e => r = 100 * ScoreUnit
            /\ args = <<4000, 1000, 420>> => result = 79 * ScoreUnit

C12_Witness ==
    /\ IsWeather
    /\ args = <<4000, 1000, 420>>
    /\ result = 79 * ScoreUnit

C14_ZeroSignal ==
    ((IsTraffic \/ IsDemand \/ IsWeather) /\ args[1] = 0 /\ args[2] = 0) =>
        /\ (IsTraffic \/ IsDemand) => result = 0
        /\ IsWeather =>
              /\ result = Min(100 * ScoreUnit, ExpectedPenalty(args[3]))
              /\ (100 <= args[3] /\ args[3] <= 400) => result = 0
              /\ args[3] = 250 => result = 0

C14_Witness ==
    /\ IsWeather
    /\ args = <<0, 0, 250>>
    /\ result = 0

(***************************************************************************)
(* Properties of the engine run: headers, rows, frames (checked under      *)
(* Spec)                                                                   *)
(***************************************************************************)
\* compute_risk_scores has been called and has ended, one way or the other
ScoringEnded == pc # "load"

\* compute_risk_scores has returned
Scored == ScoringEnded /\ pc # "scores_error"

\* compute_risk_scores has just returned: the risk table is its result and
\* the feature table is the one it was given
JustScored == pc = "scored"

AbsentAverages == AVG_COLUMNS \ columns

\* C15: with a 7-day-average column absent from the feature table,
\* compute_risk_scores does not fail on the rows and scores each row as if the
\* absent average were the row's raw value: the component is score(raw, raw).
\* On any table, rows or none, the absent averages do not change whether the
\* call fails.
C15_MissingAverage ==
    (ScoringEnded /\ AbsentAverages # {} /\ first_missing(columns) = "") =>
        /\ Len(features_df) > 0 => Scored
        /\ Scored <=>
              compute_risk_scores_error(FEATURE_COLUMNS, features_df,
                                        apply_empty_result) = ""
        /\ JustScored =>
              \A i \in 1..Len(features_df) :
                  LET row == features_df[i]
                  IN  /\ "congestion_level_7d_avg" \notin columns =>
                            risk_df[i].traffic_risk =
                                compute_traffic_risk_score(
                                    row.congestion_level, row.congestion_level)
                      /\ "rainfall_mm_7d_avg" \notin columns =>
                            risk_df[i].weather_risk =
                                compute_weather_risk_score(
                                    row.rainfall_mm, row.rainfall_mm,
                                    row.temperature)
                      /\ "demand_index_7d_avg" \notin columns =>
                            risk_df[i].demand_risk =
                                compute_demand_risk_score(
                                    row.demand_index, row.demand_index)

\* no rolling average in the file; a row whose congestion dropped to 0.304
\* after a week at 0.95 is scored on 0.304 alone
C15_Witness ==
    /\ pc = "scored"
    /\ AbsentAverages = AVG_COLUMNS
    /\ \E i \in 1..Len(features_df) :
          /\ features_df[i].congestion_level = 304
          /\ risk_df[i].traffic_risk = compute_traffic_risk_score(304, 304)
          /\ risk_df[i].traffic_risk < 21 * ScoreUnit

\* C16: if the feature table lacks a required raw column, the run fails with
\* an error that identifies a missing column, and no risk table or alert table
\* is returned or written.
C16_MissingRawColumn ==
    (ScoringEnded /\ first_missing(columns) # "") =>
        /\ pc = "scores_error"
        /\ \E i \in 1..Len(RAW_COLUMNS) :
              /\ RAW_COLUMNS[i] \notin columns
              /\ Contains(error, "'" \o RAW_COLUMNS[i] \o "'")
        /\ risk_df = <<>>
        /\ alerts_df = <<>>
        /\ files = NoFiles

\* C17: compute_risk_scores returns one risk record for each feature row, in
\* the same place and with the same (date, city); each record's
\* risk_classification is Low, Medium or High and is classify_risk of its own
\* risk_score, and its risk_score is the combiner applied to its own three
\* component scores.
C17_OneRecordPerRow ==
    JustScored =>
        /\ Len(risk_df) = Len(features_df)
        /\ \A i \in 1..Len(risk_df) :
              LET r == risk_df[i]
              IN  /\ r.date = features_df[i].date
                  /\ r.city = features_df[i].city
                  /\ r.risk_classification \in {"Low", "Medium", "High"}
                  /\ r.risk_classification = classify_risk(r.risk_score)
                  /\ r.risk_classification = "Low" <=>
                        r.risk_score <= 30 * CombinedUnit
                  /\ r.risk_classification = "High" <=>
                        r.risk_score > 60 * CombinedUnit
                  /\ r.risk_score =
                        compute_combined_risk_score(
                            r.traffic_risk, r.weather_risk, r.demand_risk)
                  /\ r.risk_score =
                        40 * r.traffic_risk + 35 * r.weather_risk
                          + 25 * r.demand_risk

C17_Witness ==
    /\ pc = "scored"
    /\ Len(features_df) = 2
    /\ Len(risk_df) = 2
    /\ risk_df[1].risk_classification = "High"
    /\ risk_df[2].risk_classification = "Low"
    /\ risk_df[1].city # risk_df[2].city

\* the table without its i-th row
without_row(df, i) == SubSeq(df, 1, i - 1) \o SubSeq(df, i + 1, Len(df))

C20_InputsUnchanged ==
    [][/\ (pc = "load" /\ pc' # "load") => features_df' = features_df
       /\ pc = "scored" => risk_df' = risk_df
       /\ \A i \in 1..Len(features_df') : DOMAIN features_df'[i] = columns'
       /\ \A i \in 1..Len(risk_df') :
             /\ "alert_reason" \notin DOMAIN risk_df'[i]
             /\ DERIVED_COLUMNS \subseteq DOMAIN risk_df'[i]
       /\ \A i \in 1..Len(alerts_df') :
             "alert_reason" \in DOMAIN alerts_df'[i]]_vars

C20_Witness ==
    /\ pc = "alerted"
    /\ Len(alerts_df) > 0
    /\ "alert_reason" \in DOMAIN alerts_df[1]
    /\ "alert_reason" \notin DOMAIN risk_df[1]
    /\ "risk_score" \in DOMAIN risk_df[1]
    /\ "risk_score" \notin DOMAIN features_df[1]

(***************************************************************************)
(* Repeated runs (checked under RerunSpec)                                 *)
(***************************************************************************)
\* the last invocation wrote its tables
Wrote == pc \in {"returned", "report_error"}

\* C19: after any sequence of invocations, the tables the last invocation
\* wrote and returned are those of the feature table it read: the risk file
\* is that table scored, the alert file is one of the alert tables of that
\* risk table, every alert is a row of the feature table read, and what is
\* returned is what is written.
C19_NoCarryOver ==
    /\ Wrote =>
          /\ files.exist
          /\ files.risk = compute_risk_scores(features_df)
          /\ files.alerts
                \in generate_alerts(compute_risk_scores(features_df), NoDate)
          /\ Len(files.risk) = Len(features_df)
          /\ \A i \in 1..Len(files.alerts) :
                \E k \in 1..Len(features_df) :
                    /\ features_df[k].date = files.alerts[i].date
                    /\ features_df[k].city = files.alerts[i].city
          /\ Len(files.alerts) <= Len(features_df)
    /\ pc = "returned" =>
          /\ risk_df = files.risk
          /\ alerts_df = files.alerts

\* the second run, on one storm row, after a run that wrote two alerts
C19_Witness ==
    /\ pc = "returned"
    /\ runs = 2
    /\ alerts_before = 2
    /\ Len(features_df) = 1
    /\ Len(files.alerts) = 1
    /\ Len(files.risk) = 1

(***************************************************************************)
(* Inputs outside their ranges (checked under ScoreSpec)                   *)
(***************************************************************************)
\* the call has been made and has returned a value
Returned == fn # "none" /\ error = ""

OutOfRange(x) == ~ValidSignal(x)

\* C21: a numeric input outside its range (negative rainfall, congestion or
\* demand outside [0,1], any temperature) is not fatal: each scorer, the
\* combiner and the classifier return a value, a number or a class, for every
\* input and raise nothing.
C21_NoNumericInputIsFatal ==
    fn # "none" =>
        /\ error = ""
        /\ (IsTraffic \/ IsWeather \/ IsDemand \/ IsCombined) =>
              result \in Int
        /\ IsClassify => result \in {"Low", "Medium", "High"}

\* congestion below 0 with an average above 1: the scorer returns
C21_Witness ==
    /\ IsTraffic
    /\ Returned
    /\ args[1] < 0
    /\ args[2] > SignalOne
    /\ result \in Int

\* C22: for every numeric input, a negative congestion, a negative rainfall
\* or a signal above 1 included, each component score returned by the traffic,
\* weather and demand scorers lies in [0,100].
C22_OutputsClamped ==
    ((IsTraffic \/ IsWeather \/ IsDemand) /\ Returned) => ValidScore(result)

(***************************************************************************)
(* The city and its tier (checked under ScoreSpec)                         *)
(***************************************************************************)
IsCityTier == fn = "get_city_tier"

ScoresOf(record) ==
    <<record.traffic_risk, record.weather_risk, record.demand_risk,
      record.risk_score, record.risk_classification>>

\* the row scored under any other city name has the same scores
SameScoresForAnyCity ==
    IsRiskRecord =>
        \A city \in Cities \cup CityNames :
            ScoresOf(risk_record([args[1] EXCEPT !["city"] = city]))
                = ScoresOf(result)

\* what Python's city_name.strip().title() gives for each name of CityNames
Normalized ==
    ("Mumbai" :> "Mumbai")
      @@ ("mumbai" :> "Mumbai")
      @@ (" Kochi " :> "Kochi")
      @@ ("JAIPUR" :> "Jaipur")
      @@ ("jaiPur" :> "Jaipur")
      @@ ("navi mumbai" :> "Navi Mumbai")
      @@ ("Navi Mumbai" :> "Navi Mumbai")
      @@ ("Navi  Mumbai" :> "Navi  Mumbai")
      @@ ("Mum bai" :> "Mum Bai")
      @@ ("Atlantis" :> "Atlantis")
      @@ ("atlantis" :> "Atlantis")
      @@ ("" :> "")
      @@ ("  " :> "")
      @@ ("Kochi2" :> "Kochi2")

\* what Python's get_city_tier gives for each name of CityNames
ExpectedTier ==
    ("Mumbai" :> "Tier 1")
      @@ ("mumbai" :> "Tier 1")
      @@ (" Kochi " :> "Tier 3")
      @@ ("JAIPUR" :> "Tier 2")
      @@ ("jaiPur" :> "Tier 2")
      @@ ("navi mumbai" :> "Tier 2")
      @@ ("Navi Mumbai" :> "Tier 2")
      @@ ("Navi  Mumbai" :> "Unknown")
      @@ ("Mum bai" :> "Unknown")
      @@ ("Atlantis" :> "Unknown")
      @@ ("atlantis" :> "Unknown")
      @@ ("" :> "Unknown")
      @@ ("  " :> "Unknown")
      @@ ("Kochi2" :> "Unknown")

\* C23 as claimed: rows that differ only in city have the same component
\* scores, risk_score and risk_classification, and get_city_tier returns
\* 'Unknown' for any city name that is not in the tier lookup.
C23_UnknownUnlessListed ==
    /\ SameScoresForAnyCity
    /\ (IsCityTier /\ args[1] \notin DOMAIN CITY_TIERS) => result = "Unknown"

\* C23, amended: rows that differ only in city have the same component
\* scores, risk_score and risk_classification, and get_city_tier returns
\* 'Unknown' for any city name whose stripped, title-cased form is not in the
\* tier lookup; a name whose stripped, title-cased form is in the lookup gets
\* that city's tier, however it is written.
C23_TierInformational ==
    /\ SameScoresForAnyCity
    /\ IsCityTier =>
          /\ result = ExpectedTier[args[1]]
          /\ Normalized[args[1]] \notin DOMAIN CITY_TIERS => result = "Unknown"
          /\ Normalized[args[1]] \in DOMAIN CITY_TIERS =>
                result = CITY_TIERS[Normalized[args[1]]]

\* a name that is in no list, in lower case
C23_Witness ==
    /\ IsCityTier
    /\ args = <<"atlantis">>
    /\ Normalized[args[1]] = "Atlantis"
    /\ result = "Unknown"

(***************************************************************************)
(* High rows and their reasons                                             *)
(***************************************************************************)
FALLBACK_REASON == "Multiple risk factors combined"

\* C24 (checked under ScoreSpec): a combined score classified High has at
\* least one component score >= 60; so has every risk record
\* compute_risk_scores classifies High, and the reason generate_alerts gives
\* it is never the fallback "Multiple risk factors combined".
C24_HighHasHighComponent ==
    /\ (IsCombined /\ Returned /\ result > 60 * CombinedUnit) =>
          \E i \in 1..3 : args[i] >= 60 * ScoreUnit
    /\ (IsRiskRecord /\ Returned /\ result.risk_classification = "High") =>
          /\ \/ result.traffic_risk >= 60 * ScoreUnit
             \/ result.weather_risk >= 60 * ScoreUnit
             \/ result.demand_risk >= 60 * ScoreUnit
          /\ with_alert_reason(result).alert_reason # FALLBACK_REASON
          /\ ~Contains(with_alert_reason(result).alert_reason, FALLBACK_REASON)

\* a High record with a component well below 60
C24_Witness ==
    /\ IsRiskRecord
    /\ result.risk_classification = "High"
    /\ result.demand_risk < 10 * ScoreUnit
    /\ result.traffic_risk >= 60 * ScoreUnit
    /\ with_alert_reason(result).alert_reason # FALLBACK_REASON

\* C25 (checked under Spec): whenever an alert reason of the engine names a
\* component, the raw value printed in the clause justifies the clause by
\* itself: that raw value scored alone (rolling average equal to it, and for
\* weather a temperature between 10 and 40 degrees) also gives the component a
\* score >= 60.
C25_PrintedValueJustifiesClause ==
    \A i \in 1..Len(alerts_df) :
        LET alert == alerts_df[i]
        IN  /\ Contains(alert.alert_reason, "High traffic congestion") =>
                  compute_traffic_risk_score(alert.congestion_level,
                                             alert.congestion_level)
                      >= 60 * ScoreUnit
            /\ Contains(alert.alert_reason, "Heavy rainfall") =>
                  compute_weather_risk_score(alert.rainfall_mm,
                                             alert.rainfall_mm, 25 * DEG)
                      >= 60 * ScoreUnit
            /\ Contains(alert.alert_reason, "Demand surge") =>
                  compute_demand_risk_score(alert.demand_index,
                                            alert.demand_index)
                      >= 60 * ScoreUnit

CarriedColumns ==
    {"date", "city", "traffic_risk", "weather_risk", "demand_risk",
     "risk_score", "risk_classification"}

Carried(row) == [c \in CarriedColumns |-> row[c]]

\* C26 (checked under Spec): every alert row carries the date, city, component
\* scores, risk_score and risk_classification of a row of the risk table it
\* was selected from, generate_alerts adds the column alert_reason and nothing
\* else, and alert_reason is a non-empty string.
C26_AlertCarriesRiskRow ==
    pc = "alerted" =>
        \A i \in 1..Len(alerts_df) :
            LET alert == alerts_df[i]
            IN  /\ \E j \in 1..Len(risk_df) :
                      /\ Carried(alert) = Carried(risk_df[j])
                      /\ RiskPart(alert) = risk_df[j]
                      /\ DOMAIN alert = DOMAIN risk_df[j] \cup {"alert_reason"}
                /\ Len(alert.alert_reason) > 0

\* an alert whose risk score is not a whole number of points
C26_Witness ==
    /\ pc = "alerted"
    /\ Len(alerts_df) >= 1
    /\ alerts_df[1].risk_score % CombinedUnit # 0
    /\ Len(alerts_df[1].alert_reason) > 0
    /\ \E j \in 1..Len(risk_df) : RiskPart(alerts_df[1]) = risk_df[j]

\* generate_alerts was called on a risk table with rows, none of them High on
\* the target date
NoHighOfDate ==
    /\ pc \in {"alerts_error", "alerted", "saved", "returned", "report_error",
              "shown"}
    /\ Len(risk_df) > 0
    /\ select_high(select_date(risk_df, alert_date)) = <<>>

\* C27 (checked under Spec): when no row of the target date is classified
\* High, generate_alerts raises nothing and returns the empty alert table, and
\* run_risk_engine writes both tables (the alert table without rows) and
\* returns, reporting zero alerts.
C27_NoHighIsNotAnError ==
    NoHighOfDate =>
        /\ pc # "alerts_error"
        /\ error = ""
        /\ alerts_df = <<>>
        /\ pc \in {"saved", "returned", "shown"} =>
              /\ files.exist
              /\ files.risk = risk_df
              /\ files.alerts = <<>>

(***************************************************************************)
(* The pipeline: main of run_pipeline.py and fetch_all_data of             *)
(* src/src/data_fetcher.py                                                 *)
(***************************************************************************)
\* Five of the monitored cities, in the order of the code's list (places 1,
\* 9, 20, 36 and 45 of its 162 cities).
CITIES == <<"Mumbai", "Jaipur", "Coimbatore", "Navi Mumbai", "Kochi">>

\* The cities among them that have an entry in city_climates of
\* fetch_weather_realistic (the table has 31 entries; Coimbatore, the 20th
\* city of CITIES, is the first of 131 cities without one).
city_climates == {"Mumbai", "Jaipur", "Navi Mumbai"}

\* the built-in exception classes met here, each with its base classes
EXCEPTION_BASES ==
    [KeyError |-> {"KeyError", "LookupError", "Exception", "BaseException"},
     ValueError |-> {"ValueError", "Exception", "BaseException"},
     OSError |-> {"OSError", "Exception", "BaseException"},
     FileNotFoundError |->
         {"FileNotFoundError", "OSError", "Exception", "BaseException"}]

HasPrefix(str, prefix) ==
    /\ Len(str) >= Len(prefix)
    /\ SubSeq(str, 1, Len(prefix)) = prefix

exception_class(raised) ==
    CHOOSE class \in DOMAIN EXCEPTION_BASES : HasPrefix(raised, class \o ":")

\* "except <handler>" catches the exception
except_clause(handler, raised) ==
    handler \in EXCEPTION_BASES[exception_class(raised)]

OpenMeteoError == "ValueError: Failed to fetch weather data from Open-Meteo"
DiskError == "OSError: [Errno 28] No space left on device"
RawFileNotFound(name) ==
    "FileNotFoundError: [Errno 2] No such file or directory: 'data/raw/"
        \o name \o "_india.csv'"

\* a table is the sequence of its records; of a record the model keeps the
\* city and where the numbers are from
table_of(cities, source) ==
    [i \in 1..Len(cities) |-> [city |-> cities[i], source |-> source]]

\* What Open-Meteo does for one city: "daily" (status 200 with days: one
\* record a day), "today" (another status or an exception: one default record
\* of today), "nothing" (status 200 without days: no record).
OPEN_METEO_REPLIES == {"daily", "today", "nothing"}

RECURSIVE openmeteo_records(_, _)
openmeteo_records(cities, replies) ==
    IF Len(cities) = 0 THEN <<>>
    ELSE LET rest == openmeteo_records(Tail(cities), Tail(replies))
         IN  IF Head(replies) = "nothing" THEN rest
             ELSE <<[city |-> Head(cities),
                     source |-> IF Head(replies) = "daily" THEN "open-meteo"
                                ELSE "default"]>> \o rest

\* the exception fetch_weather_realistic raises, "" if it returns: the first
\* city of the list without a climate entry
RECURSIVE fetch_weather_realistic_error(_)
fetch_weather_realistic_error(cities) ==
    IF Len(cities) = 0 THEN ""
    ELSE IF Head(cities) \notin city_climates THEN KeyError(Head(cities))
    ELSE fetch_weather_realistic_error(Tail(cities))

fetch_weather_realistic(cities) == table_of(cities, "realistic")

\* main's handler catches only ValueError
main_handles_value_errors(raised) == except_clause("ValueError", raised)

\* main: try: fetch_all_data(...)  except Exception as e: ...
main_handles(raised) == except_clause("Exception", raised)

\* fetch_all_data: try: fetch_weather_openmeteo()  except Exception as e: ...
fetch_all_data_handles(raised) == except_clause("Exception", raised)

PreviousRawFiles ==
    [weather |-> csv_file(table_of(CITIES, "previous run")),
     traffic |-> csv_file(table_of(CITIES, "previous run")),
     demand |-> csv_file(table_of(CITIES, "previous run"))]

RAW_FILE_ORDER == <<"weather", "traffic", "demand">>

PipelineInit ==
    /\ fn = "none"
    /\ args = <<>>
    /\ result = 0
    /\ columns = FEATURE_COLUMNS
    /\ features_df = <<>>
    /\ risk_df = <<>>
    /\ alerts_df = <<>>
    /\ alert_date = NoDate
    /\ error = ""
    /\ files = NoFiles
    /\ apply_empty_result \in APPLY_EMPTY_BUILDS
    /\ runs = 0
    /\ alerts_before = 0
    /\ DashboardIdle
    /\ raw_files \in {NoRawFiles, PreviousRawFiles}
    /\ steps = <<>>
    /\ weather_df = NoTable
    /\ traffic_df = NoTable
    /\ demand_df = NoTable
    /\ weather_data = <<>>
    /\ pc = "step0"

engine_vars ==
    <<fn, args, result, columns, features_df, risk_df, alerts_df, alert_date,
      files, apply_empty_result, runs, alerts_before, dashboard_vars>>

\* main calls fetch_all_data
CallFetchAllData ==
    /\ pc = "step0"
    /\ steps' = Append(steps, "fetch_all_data")
    /\ pc' = "openmeteo"
    /\ UNCHANGED <<engine_vars, error, raw_files, weather_df, traffic_df,
                   demand_df, weather_data>>

\* fetch_weather_openmeteo: every city asked; it raises if no record came
FetchWeatherOpenMeteo ==
    /\ pc = "openmeteo"
    /\ \E replies \in [1..Len(CITIES) -> OPEN_METEO_REPLIES] :
          LET records == openmeteo_records(CITIES, replies)
          IN  /\ weather_data' = records
              /\ IF records = <<>>
                   THEN /\ error' = OpenMeteoError
                        /\ pc' = "weather_raised"
                        /\ UNCHANGED weather_df
                   ELSE /\ weather_df' = records
                        /\ pc' = "traffic"
                        /\ UNCHANGED error
    /\ UNCHANGED <<engine_vars, raw_files, steps, traffic_df, demand_df>>

\* the handler in fetch_all_data: weather_df = fetch_weather_realistic()
FetchWeatherRealistic ==
    /\ pc = "weather_raised"
    /\ IF ~fetch_all_data_handles(error)
         THEN /\ pc' = "fetch_raised"
              /\ UNCHANGED <<steps, error, weather_df>>
       ELSE /\ steps' = Append(steps, "fetch_weather_realistic")
            /\ LET raised == fetch_weather_realistic_error(CITIES)
               IN  IF raised # ""
                     THEN /\ error' = raised
                          /\ pc' = "fetch_raised"
                          /\ UNCHANGED weather_df
                     ELSE /\ weather_df' = fetch_weather_realistic(CITIES)
                          /\ error' = ""
                          /\ pc' = "traffic"
    /\ UNCHANGED <<engine_vars, raw_files, traffic_df, demand_df,
                   weather_data>>

\* fetch_traffic_tomtom: the API's numbers with a key, the generated ones
\* without (or when no city answered); neither generator reads a table by
\* city without a default
FetchTraffic ==
    /\ pc = "traffic"
    /\ \E source \in {"tomtom", "realistic"} :
          traffic_df' = table_of(CITIES, source)
    /\ pc' = "demand"
    /\ UNCHANGED <<engine_vars, error, raw_files, steps, weather_df,
                   demand_df, weather_data>>

FetchDemand ==
    /\ pc = "demand"
    /\ demand_df' = table_of(CITIES, "proxy")
    /\ pc' = "save"
    /\ UNCHANGED <<engine_vars, error, raw_files, steps, weather_df,
                   traffic_df, weather_data>>

\* the three to_csv calls, in the order weather, traffic, demand; a write may
\* fail, and the files written before it stay written
SaveRawFiles ==
    /\ pc = "save"
    /\ \E written \in 0..Len(RAW_FILE_ORDER) :
          /\ raw_files' =
                 [weather |-> IF written >= 1 THEN csv_file(weather_df)
                              ELSE raw_files.weather,
                  traffic |-> IF written >= 2 THEN csv_file(traffic_df)
                              ELSE raw_files.traffic,
                  demand |-> IF written >= 3 THEN csv_file(demand_df)
                             ELSE raw_files.demand]
          /\ IF written < Len(RAW_FILE_ORDER)
               THEN /\ error' = DiskError
                    /\ pc' = "fetch_raised"
               ELSE /\ pc' = "step1"
                    /\ UNCHANGED error
    /\ UNCHANGED <<engine_vars, steps, weather_df, traffic_df, demand_df,
                   weather_data>>

\* the exception leaves fetch_all_data; main's handler prints the warning and
\* goes on
ExceptFetchAllData ==
    /\ pc = "fetch_raised"
    /\ IF main_handles(error)
         THEN /\ steps' = Append(steps, "except")
              /\ error' = ""
              /\ pc' = "step1"
         ELSE /\ pc' = "aborted"
              /\ UNCHANGED <<steps, error>>
    /\ UNCHANGED <<engine_vars, raw_files, weather_df, traffic_df, demand_df,
                   weather_data>>

first_absent(disk) ==
    IF ~disk.weather.present THEN "weather"
    ELSE IF ~disk.traffic.present THEN "traffic"
    ELSE IF ~disk.demand.present THEN "demand"
    ELSE ""

\* run_data_ingestion reads the three raw files
RunDataIngestion ==
    /\ pc = "step1"
    /\ steps' = Append(steps, "run_data_ingestion")
    /\ IF first_absent(raw_files) # ""
         THEN /\ error' = RawFileNotFound(first_absent(raw_files))
              /\ pc' = "aborted"
              /\ UNCHANGED <<weather_df, traffic_df, demand_df>>
         ELSE /\ weather_df' = raw_files.weather.rows
              /\ traffic_df' = raw_files.traffic.rows
              /\ demand_df' = raw_files.demand.rows
              /\ pc' = "step2"
              /\ UNCHANGED error
    /\ UNCHANGED <<engine_vars, raw_files, weather_data>>

RunFeatureEngineering ==
    /\ pc = "step2"
    /\ steps' = Append(steps, "run_feature_engineering")
    /\ pc' = "step3"
    /\ UNCHANGED <<engine_vars, error, raw_files, weather_df, traffic_df,
                   demand_df, weather_data>>

\* what run_risk_engine may raise on a feature table with rows: nothing, or,
\* where an empty selection of High rows cannot be given its reasons, the
\* error of generate_alerts
risk_engine_outcomes(build) ==
    IF build = "copy" THEN {"", SetItemError("alert_reason")} ELSE {""}

RunRiskScoring ==
    /\ pc = "step3"
    /\ steps' = Append(steps, "run_risk_engine")
    /\ \E raised \in risk_engine_outcomes(apply_empty_result) :
          /\ error' = raised
          /\ pc' = IF raised = "" THEN "complete" ELSE "aborted"
    /\ UNCHANGED <<engine_vars, raw_files, weather_df, traffic_df, demand_df,
                   weather_data>>

PipelineNext ==
    \/ CallFetchAllData
    \/ FetchWeatherOpenMeteo
    \/ FetchWeatherRealistic
    \/ FetchTraffic
    \/ FetchDemand
    \/ SaveRawFiles
    \/ ExceptFetchAllData
    \/ RunDataIngestion
    \/ RunFeatureEngineering
    \/ RunRiskScoring

PipelineSpec == PipelineInit /\ [][PipelineNext]_vars

(***************************************************************************)
(* Properties of the pipeline (checked under PipelineSpec)                 *)
(***************************************************************************)
PIPELINE_ORDER ==
    <<"fetch_all_data", "run_data_ingestion", "run_feature_engineering",
      "run_risk_engine">>

\* the steps of main among what was executed
main_steps ==
    SelectSeq(steps, LAMBDA step : \E i \in 1..Len(PIPELINE_ORDER) :
                                       step = PIPELINE_ORDER[i])

Executed(step) == \E i \in 1..Len(steps) : steps[i] = step

\* fetch_all_data raised and main went on
FetchFailed == Executed("except")

RawFilesPresent == first_absent(raw_files) = ""

MainEnded == pc \in {"complete", "aborted"}

\* C28: an exception raised by fetch_all_data never ends main: main's steps
\* always run in the order fetch, ingestion, feature engineering, risk
\* scoring; main never ends with the fetch as its only step; and after a
\* failed fetch, with the three raw files on disk, ingestion reads those files
\* as the failed fetch left them and main ends only after risk scoring ran.
C28_FetchFailureDoesNotAbort ==
    /\ main_steps = SubSeq(PIPELINE_ORDER, 1, Len(main_steps))
    /\ MainEnded => Len(main_steps) >= 2
    /\ (FetchFailed /\ RawFilesPresent) =>
          /\ MainEnded => main_steps = PIPELINE_ORDER
          /\ Executed("run_data_ingestion") =>
                /\ weather_df = raw_files.weather.rows
                /\ traffic_df = raw_files.traffic.rows
                /\ demand_df = raw_files.demand.rows

\* the weather fallback raised, main went on with the files of the previous
\* run and completed
C28_Witness ==
    /\ pc = "complete"
    /\ FetchFailed
    /\ Executed("fetch_weather_realistic")
    /\ main_steps = PIPELINE_ORDER
    /\ raw_files = PreviousRawFiles
    /\ weather_df = table_of(CITIES, "previous run")

\* Open-Meteo failed and fetch_all_data turned to fetch_weather_realistic,
\* which has ended
FellBack == Executed("fetch_weather_realistic")

covers_cities(table) ==
    \A i \in 1..Len(CITIES) :
        \E j \in 1..Len(table) : table[j].city = CITIES[i]

\* C29: when Open-Meteo fails, fetch_weather_realistic raises nothing and
\* gives fetch_all_data a weather table with a record for every city of
\* CITIES; fetch_all_data then fails only if a file cannot be written, and
\* when it has returned the three raw files hold its three tables.
C29_WeatherFallbackCoversCities ==
    FellBack =>
        /\ error \in {"", DiskError}
        /\ ~FetchFailed =>
              /\ weather_df = table_of(CITIES, "realistic")
              /\ covers_cities(weather_df)
        /\ (~FetchFailed /\ pc \in {"step1", "step2", "step3", "complete"}) =>
              /\ raw_files.weather = csv_file(table_of(CITIES, "realistic"))
              /\ raw_files.traffic.present
              /\ raw_files.demand.present

(***************************************************************************)
(* The dashboard against the engine (checked under Spec)                   *)
(***************************************************************************)
\* C30: for the date selected in the dashboard, the reason shown on the card
\* of every High row is the reason generate_alerts gives that row, whether the
\* dashboard read it from the alert file or wrote it itself.
C30_DashboardReasonIsEnginesReason ==
    pc = "shown" =>
        \A i \in 1..Len(date_alerts) :
            date_alerts[i].risk_classification = "High" =>
                shown_reason(date_alerts[i])
                    = generate_alert_reason(RiskPart(date_alerts[i]))

====
